---------------------------- MODULE Spec2Model ----------------------------
(***************************************************************************)
(* A model of the DPF-HCP bridge operator's reconciliation engine:         *)
(*   - internal/controller/metallb/metallb.go        (upsert of the        *)
(*     IPAddressPool and the L2Advertisement, the MetalLBConfigured        *)
(*     condition),                                                         *)
(*   - internal/controller/hostedcluster/finalizer.go (teardown of the     *)
(*     HostedCluster, the NodePool and the derived secrets),               *)
(*   - common.ResourceNeedsUpdate and the ownership label constants.       *)
(*                                                                         *)
(* A Go pointer or optional value is a sequence of length 0 (nil) or 1.    *)
(* A Go error is a string, "" standing for nil.  Every call of the API     *)
(* client is one step inside the handler that makes it; what the API       *)
(* server answers (a transient failure, another actor's write between the  *)
(* handler's read and its write) is an input of the handler's action.      *)
(***************************************************************************)
EXTENDS Integers, Sequences, FiniteSets, TLC

VARIABLES
    bridge,     \* the DPFHCPBridge as the API server stores it
    cr,         \* the DPFHCPBridge object the engine holds in memory
    pool,       \* the stored IPAddressPool <bridge.Name>, or Nil
    adv,        \* the stored L2Advertisement advertise-<bridge.Name>, or Nil
    hc,         \* the stored HostedCluster <bridge.Name>, or Nil
    np,         \* the stored NodePool <bridge.Name>, or Nil
    secrets,    \* the names of the stored secrets of bridge.Namespace
    kinds,      \* the HyperShift kinds whose CRD is installed
    trigger,    \* whether the scheduler owes the parent a reconciliation
    now,        \* the wall clock, in units of 30 minutes
    inv,        \* the record of the engine's last invocation
    prev,       \* a summary of the invocation before it
    run,        \* the current run of identical setCondition calls
    fnArgs,     \* the arguments of a call of a pure function
    fnRes       \* its result

vars == <<bridge, cr, pool, adv, hc, np, secrets, kinds, trigger, now, inv, prev,
          run, fnArgs, fnRes>>

---------------------------------------------------------------------------
(* Bounds of the model *)

\* the clock, which counts units of 30 minutes, stops advancing at MaxNow
MaxNow == 2
\* metadata.generation of the parent is not raised beyond MaxGeneration
MaxGeneration == 2
\* a run of identical setCondition calls is counted up to MaxRun calls
MaxRun == 3
\* the node addresses tried are 10.0.i.j with i and j up to MaxOctet
MaxOctet == 4

---------------------------------------------------------------------------
(* Constants of the program *)

LabelDPFHCPBridgeName == "dpfhcpbridge.dpu.hcp.io/name"
LabelDPFHCPBridgeNamespace == "dpfhcpbridge.dpu.hcp.io/namespace"
OpenshiftOperatorsNamespace == "openshift-operators"

\* DeletionTimeout = 30 * time.Minute, in units of the clock (30 minutes)
DeletionTimeout == 1
\* DeletionRequeueInterval = 10 * time.Second, in seconds
DeletionRequeueInterval == 10

MetalLBConfigured == "MetalLBConfigured"
HostedClusterCleanup == "HostedClusterCleanup"

ConditionTrue == "True"
ConditionFalse == "False"
ConditionUnknown == "Unknown"

---------------------------------------------------------------------------
(* Values *)

Nil == <<>>
Some(x) == <<x>>
IsNil(p) == p = <<>>
Deref(p) == p[1]

\* the names and namespaces that occur, as identities and as label values
Idents == {"a", "n1", "x"}
VirtualIPs == {"10.0.0.1", "10.0.0.2"}

LabelKeys == {LabelDPFHCPBridgeName, LabelDPFHCPBridgeNamespace}

\* a Go map[string]string: nil, or a map (possibly empty)
NilLabels == [isNil |-> TRUE, kv |-> <<>>]
MakeLabels(f) == [isNil |-> FALSE, kv |-> f]
AllLabelMaps ==
    {NilLabels} \cup
    {MakeLabels(f) : f \in UNION {[D -> Idents] : D \in SUBSET LabelKeys}}

\* labels[key] of Go: the value and whether the key is present; indexing a
\* nil map yields ("", false)
LabelLookup(labels, key) ==
    IF ~labels.isNil /\ key \in DOMAIN labels.kv
    THEN [value |-> labels.kv[key], ok |-> TRUE]
    ELSE [value |-> "", ok |-> FALSE]

OwnerLabels(name, namespace) ==
    MakeLabels(LabelDPFHCPBridgeName :> name @@ LabelDPFHCPBridgeNamespace :> namespace)

---------------------------------------------------------------------------
(* isOwnedByBridge, metallb.go *)

isOwnedByBridge_NameOnly(obj, b) ==
    LET bridgeName == LabelLookup(obj.Labels, LabelDPFHCPBridgeName)
    IN  ~obj.Labels.isNil /\ bridgeName.ok /\ bridgeName.value = b.Name

isOwnedByBridge(obj, b) ==
    LET labels == obj.Labels
    IN  IF labels.isNil
        THEN FALSE
        ELSE LET bridgeName == LabelLookup(labels, LabelDPFHCPBridgeName)
                 bridgeNamespace == LabelLookup(labels, LabelDPFHCPBridgeNamespace)
             IN  /\ bridgeName.ok
                 /\ bridgeNamespace.ok
                 /\ bridgeName.value = b.Name
                 /\ bridgeNamespace.value = b.Namespace

---------------------------------------------------------------------------
(* common.ResourceNeedsUpdate *)

\* reflect.Value.FieldByName("Spec").IsValid(): the struct type has a Spec field
HasSpecField(obj) == "Spec" \in DOMAIN obj

\* reflect.DeepEqual on two values of the same type; the model's values are
\* canonical (a nil slice or pointer is <<>>), so it is structural equality
DeepEqual(x, y) == x = y

ResourceNeedsUpdate_WholeObject(existing, desired) ==
    IF IsNil(existing) \/ IsNil(desired)
    THEN existing # desired
    ELSE ~DeepEqual(Deref(existing), Deref(desired))

ResourceNeedsUpdate_LowercaseField(existing, desired) ==
    IF IsNil(existing) \/ IsNil(desired)
    THEN existing # desired
    ELSE LET existingVal == Deref(existing)
             desiredVal == Deref(desired)
         IN  IF "spec" \in DOMAIN existingVal /\ "spec" \in DOMAIN desiredVal
             THEN ~DeepEqual(existingVal.spec, desiredVal.spec)
             ELSE FALSE

ResourceNeedsUpdate(existing, desired) ==
    IF IsNil(existing) \/ IsNil(desired)
    THEN existing # desired
    ELSE LET existingVal == Deref(existing)
             desiredVal == Deref(desired)
         IN  IF HasSpecField(existingVal) /\ HasSpecField(desiredVal)
             THEN ~DeepEqual(existingVal.Spec, desiredVal.Spec)
             ELSE FALSE

---------------------------------------------------------------------------
(* The parent object and the managed resources *)

\* the DPFHCPBridge named "a" in namespace "n1", as created by its user
NewBridge(vip, expose) ==
    [Name |-> "a", Namespace |-> "n1", Generation |-> 1,
     DeletionTimestamp |-> Nil, Finalizer |-> TRUE,
     Spec |-> [VirtualIP |-> vip, ExposeThroughLoadBalancer |-> expose],
     Conditions |-> <<>>]

\* bridge.ShouldExposeThroughLoadBalancer(), as consulted by ConfigureMetalLB
ShouldExposeThroughLoadBalancer(b) == b.Spec.ExposeThroughLoadBalancer

PoolName(b) == b.Name
AdvName(b) == "advertise-" \o b.Name

\* a variant that labels the pool with the parent's name alone
buildIPAddressPool_NameLabelOnly(b) ==
    [Kind |-> "IPAddressPool",
     Name |-> b.Name,
     Namespace |-> OpenshiftOperatorsNamespace,
     Labels |-> MakeLabels(LabelDPFHCPBridgeName :> b.Name),
     Spec |-> [Addresses |-> <<b.Spec.VirtualIP \o "/32">>,
               AllocateTo |-> Some([Namespaces |-> <<"clusters-" \o b.Name>>]),
               AutoAssign |-> Some(TRUE)]]

buildIPAddressPool(b) ==
    [Kind |-> "IPAddressPool",
     Name |-> b.Name,
     Namespace |-> OpenshiftOperatorsNamespace,
     Labels |-> OwnerLabels(b.Name, b.Namespace),
     Spec |-> [Addresses |-> <<b.Spec.VirtualIP \o "/32">>,
               AllocateTo |-> Some([Namespaces |-> <<"clusters-" \o b.Name>>]),
               AutoAssign |-> Some(TRUE)]]

buildL2Advertisement(b) ==
    [Kind |-> "L2Advertisement",
     Name |-> "advertise-" \o b.Name,
     Namespace |-> OpenshiftOperatorsNamespace,
     Labels |-> OwnerLabels(b.Name, b.Namespace),
     Spec |-> [IPAddressPools |-> <<b.Name>>]]

\* the label maps a stored resource of the model may carry: the parent's
\* marker, and its missing or mismatched variants
StoredLabelMaps ==
    { NilLabels,
      OwnerLabels("a", "n1"),
      OwnerLabels("a", "x"),
      OwnerLabels("n1", "a"),
      MakeLabels(LabelDPFHCPBridgeName :> "a") }

\* the specs an IPAddressPool may be given by its author or by an edit
PoolSpecs ==
    { [Addresses |-> <<ip \o "/32">>,
       AllocateTo |-> Some([Namespaces |-> <<"clusters-a">>]),
       AutoAssign |-> Some(TRUE)] : ip \in VirtualIPs }
    \cup
    { [Addresses |-> <<"10.0.0.1/32">>, AllocateTo |-> Nil, AutoAssign |-> Some(TRUE)],
      [Addresses |-> <<"10.0.0.1/32", "10.0.0.9/32">>,
       AllocateTo |-> Some([Namespaces |-> <<"clusters-a">>]),
       AutoAssign |-> Some(FALSE)] }

AdvSpecs ==
    { [IPAddressPools |-> <<"a">>],
      [IPAddressPools |-> <<>>],
      [IPAddressPools |-> <<"a", "other">>] }

PoolObjects ==
    { [Kind |-> "IPAddressPool", Name |-> "a", Namespace |-> OpenshiftOperatorsNamespace,
       Labels |-> l, Spec |-> s] : l \in StoredLabelMaps, s \in PoolSpecs }

AdvObjects ==
    { [Kind |-> "L2Advertisement", Name |-> "advertise-a",
       Namespace |-> OpenshiftOperatorsNamespace,
       Labels |-> l, Spec |-> s] : l \in StoredLabelMaps, s \in AdvSpecs }

---------------------------------------------------------------------------
(* The API client (controller-runtime client.Client), as the engine calls it *)

\* one cell of the store during a handler: the object and its version token
Cell(stored) == [obj |-> stored, rv |-> 1]

\* another actor's write between the handler's read and its write: race is
\* Nil (none) or Some(the object, or Nil, it leaves stored)
AfterRace(cell, race) ==
    IF IsNil(race) THEN cell ELSE [obj |-> Deref(race), rv |-> cell.rv + 1]

ErrNotFound == "NotFound"
ErrAlreadyExists == "AlreadyExists"
ErrConflict == "Conflict"
ErrNoMatch == "NoKindMatch"
ErrTransient == "ServiceUnavailable"

\* a variant that recognises no error as NotFound
IsNotFound_Never(err) == FALSE

\* a variant that takes every error for NotFound
IsNotFound_AnyError(err) == err # ""

IsNotFound(err) == err = ErrNotFound
\* a variant that recognises no error as a no-match error
IsNoMatchError_Never(err) == FALSE

IsNoMatchError(err) == err = ErrNoMatch

\* the object as the client decodes it: the stored object with its token
Decoded(cell) == Deref(cell.obj) @@ [ResourceVersion |-> cell.rv]
\* the object as the server stores it
Encoded(obj) == [k \in DOMAIN obj \ {"ResourceVersion"} |-> obj[k]]

ClientGet(cell, fault) ==
    IF fault THEN [err |-> ErrTransient, obj |-> Nil]
    ELSE IF IsNil(cell.obj) THEN [err |-> ErrNotFound, obj |-> Nil]
    ELSE [err |-> "", obj |-> Some(Decoded(cell))]

ClientCreate(cell, obj, fault) ==
    IF fault THEN [err |-> ErrTransient, cell |-> cell]
    ELSE IF ~IsNil(cell.obj) THEN [err |-> ErrAlreadyExists, cell |-> cell]
    ELSE [err |-> "", cell |-> [obj |-> Some(Encoded(obj)), rv |-> cell.rv + 1]]

ClientUpdate(cell, obj, fault) ==
    IF fault THEN [err |-> ErrTransient, cell |-> cell]
    ELSE IF IsNil(cell.obj) THEN [err |-> ErrNotFound, cell |-> cell]
    ELSE IF obj.ResourceVersion # cell.rv THEN [err |-> ErrConflict, cell |-> cell]
    ELSE [err |-> "", cell |-> [obj |-> Some(Encoded(obj)), rv |-> cell.rv + 1]]

\* one entry of an invocation's log of API calls
Op(op, kind, name, err, obj) ==
    [op |-> op, kind |-> kind, name |-> name, err |-> err, obj |-> obj]

\* a variant that records every event as Normal
Event_AlwaysNormal(type, reason, message) ==
    [type |-> "Normal", reason |-> reason, message |-> message]

\* one event handed to the recorder
Event(type, reason, message) == [type |-> type, reason |-> reason, message |-> message]

---------------------------------------------------------------------------
(* ensureIPAddressPool and ensureL2Advertisement, metallb.go               *)
(* io: getErr and writeErr, whether the Get and the Create/Update fail     *)
(* transiently; race, another actor's write between the two.               *)
(* The result: the cell as the call leaves it, the API calls made, the     *)
(* events emitted and the error returned.                                  *)

NotOwnedErr(kind, existing, b) ==
    kind \o " " \o existing.Namespace \o "/" \o existing.Name
         \o " exists but is not owned by DPFHCPBridge "
         \o b.Namespace \o "/" \o b.Name \o " (missing ownership labels)"

Wrap(prefix, err) == prefix \o ": " \o err

\* a variant that sends the desired object, which carries no version token,
\* in place of the object read
ensureIPAddressPool_SendsDesired(b, cell, io) ==
    LET desired == buildIPAddressPool(b)
        get == ClientGet(cell, io.getErr)
        getOp == Op("Get", "IPAddressPool", b.Name, get.err, Nil)
    IN  IF IsNotFound(get.err)
        THEN LET create == ClientCreate(AfterRace(cell, io.race), desired, io.writeErr)
                 createOp == Op("Create", "IPAddressPool", desired.Name, create.err,
                                Some(desired))
             IN  [cell |-> create.cell, ops |-> <<getOp, createOp>>, events |-> <<>>,
                  err |-> IF create.err # ""
                          THEN Wrap("creating IPAddressPool", create.err) ELSE ""]
        ELSE IF get.err # ""
        THEN [cell |-> cell, ops |-> <<getOp>>, events |-> <<>>,
              err |-> Wrap("getting IPAddressPool", get.err)]
        ELSE LET existing == Deref(get.obj)
             IN  IF ~isOwnedByBridge(existing, b)
                 THEN [cell |-> cell, ops |-> <<getOp>>, events |-> <<>>,
                       err |-> NotOwnedErr("IPAddressPool", existing, b)]
                 ELSE IF ResourceNeedsUpdate(Some(existing), Some(desired))
                 THEN LET changed == desired @@ [ResourceVersion |-> 0]
                          update == ClientUpdate(AfterRace(cell, io.race), changed,
                                                 io.writeErr)
                          updateOp == Op("Update", "IPAddressPool", changed.Name,
                                         update.err, Some(changed))
                      IN  IF update.err # ""
                          THEN [cell |-> update.cell, ops |-> <<getOp, updateOp>>,
                                events |-> <<>>,
                                err |-> Wrap("updating IPAddressPool", update.err)]
                          ELSE [cell |-> update.cell, ops |-> <<getOp, updateOp>>,
                                events |-> <<Event("Normal", "MetalLBDriftCorrected",
                                    "Corrected spec drift in IPAddressPool "
                                        \o existing.Name)>>,
                                err |-> ""]
                 ELSE [cell |-> cell, ops |-> <<getOp>>, events |-> <<>>, err |-> ""]

\* a variant that takes over the resource another actor created under it
ensureIPAddressPool_AdoptsOnRace(b, cell, io) ==
    LET desired == buildIPAddressPool(b)
        get == ClientGet(cell, io.getErr)
        getOp == Op("Get", "IPAddressPool", b.Name, get.err, Nil)
    IN  IF IsNotFound(get.err)
        THEN LET create == ClientCreate(AfterRace(cell, io.race), desired, io.writeErr)
                 createOp == Op("Create", "IPAddressPool", desired.Name, create.err,
                                Some(desired))
                 adopt == ClientUpdate(create.cell, desired @@ [ResourceVersion |-> create.cell.rv],
                                       FALSE)
                 adoptOp == Op("Update", "IPAddressPool", desired.Name, adopt.err,
                               Some(desired))
             IN  IF create.err = ErrAlreadyExists
                 THEN [cell |-> adopt.cell, ops |-> <<getOp, createOp, adoptOp>>,
                       events |-> <<>>, err |-> adopt.err]
                 ELSE [cell |-> create.cell, ops |-> <<getOp, createOp>>, events |-> <<>>,
                       err |-> IF create.err # ""
                               THEN Wrap("creating IPAddressPool", create.err) ELSE ""]
        ELSE IF get.err # ""
        THEN [cell |-> cell, ops |-> <<getOp>>, events |-> <<>>,
              err |-> Wrap("getting IPAddressPool", get.err)]
        ELSE LET existing == Deref(get.obj)
             IN  IF ~isOwnedByBridge(existing, b)
                 THEN [cell |-> cell, ops |-> <<getOp>>, events |-> <<>>,
                       err |-> NotOwnedErr("IPAddressPool", existing, b)]
                 ELSE IF ResourceNeedsUpdate(Some(existing), Some(desired))
                 THEN LET changed == [existing EXCEPT !.Spec = desired.Spec]
                          update == ClientUpdate(AfterRace(cell, io.race), changed,
                                                 io.writeErr)
                          updateOp == Op("Update", "IPAddressPool", changed.Name,
                                         update.err, Some(changed))
                      IN  IF update.err # ""
                          THEN [cell |-> update.cell, ops |-> <<getOp, updateOp>>,
                                events |-> <<>>,
                                err |-> Wrap("updating IPAddressPool", update.err)]
                          ELSE [cell |-> update.cell, ops |-> <<getOp, updateOp>>,
                                events |-> <<Event("Normal", "MetalLBDriftCorrected",
                                    "Corrected spec drift in IPAddressPool "
                                        \o existing.Name)>>,
                                err |-> ""]
                 ELSE [cell |-> cell, ops |-> <<getOp>>, events |-> <<>>, err |-> ""]

ensureIPAddressPool(b, cell, io) ==
    LET desired == buildIPAddressPool(b)
        get == ClientGet(cell, io.getErr)
        getOp == Op("Get", "IPAddressPool", b.Name, get.err, Nil)
    IN  IF IsNotFound(get.err)
        THEN LET create == ClientCreate(AfterRace(cell, io.race), desired, io.writeErr)
                 createOp == Op("Create", "IPAddressPool", desired.Name, create.err,
                                Some(desired))
             IN  [cell |-> create.cell, ops |-> <<getOp, createOp>>, events |-> <<>>,
                  err |-> IF create.err # ""
                          THEN Wrap("creating IPAddressPool", create.err) ELSE ""]
        ELSE IF get.err # ""
        THEN [cell |-> cell, ops |-> <<getOp>>, events |-> <<>>,
              err |-> Wrap("getting IPAddressPool", get.err)]
        ELSE LET existing == Deref(get.obj)
             IN  IF ~isOwnedByBridge(existing, b)
                 THEN [cell |-> cell, ops |-> <<getOp>>, events |-> <<>>,
                       err |-> NotOwnedErr("IPAddressPool", existing, b)]
                 ELSE IF ResourceNeedsUpdate(Some(existing), Some(desired))
                 THEN LET changed == [existing EXCEPT !.Spec = desired.Spec]
                          update == ClientUpdate(AfterRace(cell, io.race), changed,
                                                 io.writeErr)
                          updateOp == Op("Update", "IPAddressPool", changed.Name,
                                         update.err, Some(changed))
                      IN  IF update.err # ""
                          THEN [cell |-> update.cell, ops |-> <<getOp, updateOp>>,
                                events |-> <<>>,
                                err |-> Wrap("updating IPAddressPool", update.err)]
                          ELSE [cell |-> update.cell, ops |-> <<getOp, updateOp>>,
                                events |-> <<Event("Normal", "MetalLBDriftCorrected",
                                    "Corrected spec drift in IPAddressPool "
                                        \o existing.Name)>>,
                                err |-> ""]
                 ELSE [cell |-> cell, ops |-> <<getOp>>, events |-> <<>>, err |-> ""]

ensureL2Advertisement(b, cell, io) ==
    LET desired == buildL2Advertisement(b)
        get == ClientGet(cell, io.getErr)
        getOp == Op("Get", "L2Advertisement", "advertise-" \o b.Name, get.err, Nil)
    IN  IF IsNotFound(get.err)
        THEN LET create == ClientCreate(AfterRace(cell, io.race), desired, io.writeErr)
                 createOp == Op("Create", "L2Advertisement", desired.Name, create.err,
                                Some(desired))
             IN  [cell |-> create.cell, ops |-> <<getOp, createOp>>, events |-> <<>>,
                  err |-> IF create.err # ""
                          THEN Wrap("creating L2Advertisement", create.err) ELSE ""]
        ELSE IF get.err # ""
        THEN [cell |-> cell, ops |-> <<getOp>>, events |-> <<>>,
              err |-> Wrap("getting L2Advertisement", get.err)]
        ELSE LET existing == Deref(get.obj)
             IN  IF ~isOwnedByBridge(existing, b)
                 THEN [cell |-> cell, ops |-> <<getOp>>, events |-> <<>>,
                       err |-> NotOwnedErr("L2Advertisement", existing, b)]
                 ELSE IF ResourceNeedsUpdate(Some(existing), Some(desired))
                 THEN LET changed == [existing EXCEPT !.Spec = desired.Spec]
                          update == ClientUpdate(AfterRace(cell, io.race), changed,
                                                 io.writeErr)
                          updateOp == Op("Update", "L2Advertisement", changed.Name,
                                         update.err, Some(changed))
                      IN  IF update.err # ""
                          THEN [cell |-> update.cell, ops |-> <<getOp, updateOp>>,
                                events |-> <<>>,
                                err |-> Wrap("updating L2Advertisement", update.err)]
                          ELSE [cell |-> update.cell, ops |-> <<getOp, updateOp>>,
                                events |-> <<Event("Normal", "MetalLBDriftCorrected",
                                    "Corrected spec drift in L2Advertisement "
                                        \o existing.Name)>>,
                                err |-> ""]
                 ELSE [cell |-> cell, ops |-> <<getOp>>, events |-> <<>>, err |-> ""]

---------------------------------------------------------------------------
(* Status conditions *)

Condition(type, status, reason, message, t, generation) ==
    [Type |-> type, Status |-> status, Reason |-> reason, Message |-> message,
     LastTransitionTime |-> t, ObservedGeneration |-> generation]

\* meta.FindStatusCondition: the index of the first entry of the type, or 0
FindStatusCondition(conditions, type) ==
    IF \E i \in 1..Len(conditions) : conditions[i].Type = type
    THEN CHOOSE i \in 1..Len(conditions) :
            /\ conditions[i].Type = type
            /\ \A j \in 1..(i - 1) : conditions[j].Type # type
    ELSE 0

SetStatusCondition_AlwaysChanged(conditions, newCondition) ==
    LET i == FindStatusCondition(conditions, newCondition.Type)
    IN  [conditions |-> IF i = 0 THEN Append(conditions, newCondition)
                        ELSE [conditions EXCEPT ![i] = newCondition],
         changed |-> TRUE]

\* meta.SetStatusCondition as called by setCondition and HandleFinalizerCleanup:
\* the entry of the type is appended, or updated in place; LastTransitionTime
\* moves only with Status; changed reports whether anything was written
SetStatusCondition(conditions, newCondition) ==
    LET i == FindStatusCondition(conditions, newCondition.Type)
    IN  IF i = 0
        THEN [conditions |-> Append(conditions, newCondition), changed |-> TRUE]
        ELSE LET existing == conditions[i]
                 statusDiffers == existing.Status # newCondition.Status
                 merged ==
                    [Type |-> existing.Type,
                     Status |-> newCondition.Status,
                     Reason |-> newCondition.Reason,
                     Message |-> newCondition.Message,
                     LastTransitionTime |-> IF statusDiffers
                                            THEN newCondition.LastTransitionTime
                                            ELSE existing.LastTransitionTime,
                     ObservedGeneration |-> newCondition.ObservedGeneration]
             IN  [conditions |-> [conditions EXCEPT ![i] = merged],
                  changed |-> \/ statusDiffers
                              \/ existing.Reason # newCondition.Reason
                              \/ existing.Message # newCondition.Message
                              \/ existing.ObservedGeneration
                                    # newCondition.ObservedGeneration]

\* a variant that answers success and stores nothing
ClientStatusUpdate_NotStored(stored, obj, fresh, fault) ==
    [err |-> "", stored |-> stored, obj |-> obj]

\* client.Status().Update(ctx, obj): the held object is obj, fresh tells whether
\* its version token is the stored one.  On success the stored status is the
\* object's and the object is the server's answer.
ClientStatusUpdate(stored, obj, fresh, fault) ==
    IF fault THEN [err |-> ErrTransient, stored |-> stored, obj |-> obj]
    ELSE IF ~fresh THEN [err |-> ErrConflict, stored |-> stored, obj |-> obj]
    ELSE LET written == [stored EXCEPT !.Conditions = obj.Conditions]
         IN  [err |-> "", stored |-> written, obj |-> written]

\* the log entry of a status write: the object handed to Status().Update
StatusUpdateOp(b, err) == Op("UpdateStatus", "DPFHCPBridge", b.Name, err, Some(b))

\* a variant that requests the status write a second time when it failed
setCondition_Retries(b, fresh, stored, status, reason, message, t, fault) ==
    LET condition == Condition(MetalLBConfigured, status, reason, message, t,
                               b.Generation)
        set == SetStatusCondition(b.Conditions, condition)
        held == [b EXCEPT !.Conditions = set.conditions]
        first == ClientStatusUpdate(stored, held, fresh, fault)
        second == ClientStatusUpdate(stored, held, fresh, fault)
    IN  IF ~set.changed
        THEN [cr |-> held, stored |-> stored, ops |-> <<>>, events |-> <<>>, err |-> ""]
        ELSE [cr |-> second.obj, stored |-> second.stored,
              ops |-> IF first.err = "" THEN <<StatusUpdateOp(held, "")>>
                      ELSE <<StatusUpdateOp(held, first.err),
                             StatusUpdateOp(held, second.err)>>,
              events |-> <<Event(IF status = ConditionFalse THEN "Warning" ELSE "Normal",
                                 IF status = ConditionFalse
                                 THEN "MetalLBConfigurationFailed"
                                 ELSE "MetalLBConfigured", message)>>,
              err |-> IF second.err # ""
                      THEN Wrap("updating MetalLBConfigured condition", second.err)
                      ELSE ""]

\* setCondition of metallb.go on the held object b; t is metav1.Now()
setCondition(b, fresh, stored, status, reason, message, t, fault) ==
    LET condition == Condition(MetalLBConfigured, status, reason, message, t,
                               b.Generation)
        set == SetStatusCondition(b.Conditions, condition)
        held == [b EXCEPT !.Conditions = set.conditions]
    IN  IF set.changed
        THEN LET eventType == IF status = ConditionFalse THEN "Warning" ELSE "Normal"
                 eventReason == IF status = ConditionFalse
                                THEN "MetalLBConfigurationFailed"
                                ELSE "MetalLBConfigured"
                 update == ClientStatusUpdate(stored, held, fresh, fault)
             IN  [cr |-> update.obj, stored |-> update.stored,
                  ops |-> <<StatusUpdateOp(held, update.err)>>,
                  events |-> <<Event(eventType, eventReason, message)>>,
                  err |-> IF update.err # ""
                          THEN Wrap("updating MetalLBConfigured condition", update.err)
                          ELSE ""]
        ELSE [cr |-> held, stored |-> stored, ops |-> <<>>, events |-> <<>>,
              err |-> ""]

---------------------------------------------------------------------------
(* ConfigureMetalLB, metallb.go                                            *)
(* io.pool and io.adv are the inputs of the two ensure calls, io.statusErr *)
(* whether the status update fails.  The result also carries the stored    *)
(* parent and the two cells as the invocation leaves them.                 *)

\* a variant that reports MetalLBReady although the advertisement failed
ConfigureMetalLB_ReadyRegardless(b, fresh, stored, poolCell, advCell, io, t) ==
    LET p == ensureIPAddressPool(b, poolCell, io.pool)
        a == ensureL2Advertisement(b, advCell, io.adv)
        c == IF p.err # ""
             THEN setCondition(b, fresh, stored, ConditionFalse, "CreatingIPAddressPool",
                               "Failed to create/update IPAddressPool: " \o p.err,
                               t, io.statusErr)
             ELSE setCondition(b, fresh, stored, ConditionTrue, "MetalLBReady",
                               "MetalLB configured successfully", t, io.statusErr)
    IN  IF ~ShouldExposeThroughLoadBalancer(b)
        THEN [cr |-> b, stored |-> stored, pool |-> poolCell, adv |-> advCell,
              ops |-> <<>>, events |-> <<>>, err |-> "", requeueAfter |-> 0]
        ELSE IF p.err # ""
        THEN [cr |-> c.cr, stored |-> c.stored, pool |-> p.cell, adv |-> advCell,
              ops |-> p.ops \o c.ops, events |-> p.events \o c.events,
              err |-> p.err, requeueAfter |-> 0]
        ELSE [cr |-> c.cr, stored |-> c.stored, pool |-> p.cell, adv |-> a.cell,
              ops |-> p.ops \o a.ops \o c.ops,
              events |-> p.events \o a.events \o c.events,
              err |-> IF a.err # "" THEN a.err ELSE c.err, requeueAfter |-> 0]

\* a variant that goes on to the advertisement after the pool has failed
ConfigureMetalLB_NoHalt(b, fresh, stored, poolCell, advCell, io, t) ==
    LET p == ensureIPAddressPool(b, poolCell, io.pool)
        a == ensureL2Advertisement(b, advCell, io.adv)
        c == IF p.err # ""
             THEN setCondition(b, fresh, stored, ConditionFalse, "CreatingIPAddressPool",
                               "Failed to create/update IPAddressPool: " \o p.err,
                               t, io.statusErr)
             ELSE IF a.err # ""
             THEN setCondition(b, fresh, stored, ConditionFalse, "L2AdvertisementFailed",
                               "Failed to create/update L2Advertisement: " \o a.err,
                               t, io.statusErr)
             ELSE setCondition(b, fresh, stored, ConditionTrue, "MetalLBReady",
                               "MetalLB configured successfully", t, io.statusErr)
    IN  IF ~ShouldExposeThroughLoadBalancer(b)
        THEN [cr |-> b, stored |-> stored, pool |-> poolCell, adv |-> advCell,
              ops |-> <<>>, events |-> <<>>, err |-> "", requeueAfter |-> 0]
        ELSE [cr |-> c.cr, stored |-> c.stored, pool |-> p.cell, adv |-> a.cell,
              ops |-> p.ops \o a.ops \o c.ops,
              events |-> p.events \o a.events \o c.events,
              err |-> IF p.err # "" THEN p.err ELSE IF a.err # "" THEN a.err ELSE c.err,
              requeueAfter |-> 0]

\* a variant that configures MetalLB whether or not exposure is asked for
ConfigureMetalLB_AlwaysConfigures(b, fresh, stored, poolCell, advCell, io, t) ==
    LET p == ensureIPAddressPool(b, poolCell, io.pool)
    IN  IF p.err # ""
        THEN LET c == setCondition(b, fresh, stored, ConditionFalse,
                        "CreatingIPAddressPool",
                        "Failed to create/update IPAddressPool: " \o p.err,
                        t, io.statusErr)
             IN  [cr |-> c.cr, stored |-> c.stored, pool |-> p.cell, adv |-> advCell,
                  ops |-> p.ops \o c.ops, events |-> p.events \o c.events,
                  err |-> p.err, requeueAfter |-> 0]
        ELSE
        LET a == ensureL2Advertisement(b, advCell, io.adv)
        IN  IF a.err # ""
            THEN LET c == setCondition(b, fresh, stored, ConditionFalse,
                            "L2AdvertisementFailed",
                            "Failed to create/update L2Advertisement: " \o a.err,
                            t, io.statusErr)
                 IN  [cr |-> c.cr, stored |-> c.stored, pool |-> p.cell,
                      adv |-> a.cell,
                      ops |-> p.ops \o a.ops \o c.ops,
                      events |-> p.events \o a.events \o c.events,
                      err |-> a.err, requeueAfter |-> 0]
            ELSE LET c == setCondition(b, fresh, stored, ConditionTrue,
                            "MetalLBReady", "MetalLB configured successfully",
                            t, io.statusErr)
                 IN  [cr |-> c.cr, stored |-> c.stored, pool |-> p.cell,
                      adv |-> a.cell,
                      ops |-> p.ops \o a.ops \o c.ops,
                      events |-> p.events \o a.events \o c.events,
                      err |-> c.err, requeueAfter |-> 0]

ConfigureMetalLB(b, fresh, stored, poolCell, advCell, io, t) ==
    IF ~ShouldExposeThroughLoadBalancer(b)
    THEN [cr |-> b, stored |-> stored, pool |-> poolCell, adv |-> advCell,
          ops |-> <<>>, events |-> <<>>, err |-> "", requeueAfter |-> 0]
    ELSE
    LET p == ensureIPAddressPool(b, poolCell, io.pool)
    IN  IF p.err # ""
        THEN LET c == setCondition(b, fresh, stored, ConditionFalse,
                        "CreatingIPAddressPool",
                        "Failed to create/update IPAddressPool: " \o p.err,
                        t, io.statusErr)
             IN  [cr |-> c.cr, stored |-> c.stored, pool |-> p.cell, adv |-> advCell,
                  ops |-> p.ops \o c.ops, events |-> p.events \o c.events,
                  err |-> p.err, requeueAfter |-> 0]
        ELSE
        LET a == ensureL2Advertisement(b, advCell, io.adv)
        IN  IF a.err # ""
            THEN LET c == setCondition(b, fresh, stored, ConditionFalse,
                            "L2AdvertisementFailed",
                            "Failed to create/update L2Advertisement: " \o a.err,
                            t, io.statusErr)
                 IN  [cr |-> c.cr, stored |-> c.stored, pool |-> p.cell,
                      adv |-> a.cell,
                      ops |-> p.ops \o a.ops \o c.ops,
                      events |-> p.events \o a.events \o c.events,
                      err |-> a.err, requeueAfter |-> 0]
            ELSE LET c == setCondition(b, fresh, stored, ConditionTrue,
                            "MetalLBReady", "MetalLB configured successfully",
                            t, io.statusErr)
                 IN  [cr |-> c.cr, stored |-> c.stored, pool |-> p.cell,
                      adv |-> a.cell,
                      ops |-> p.ops \o a.ops \o c.ops,
                      events |-> p.events \o a.events \o c.events,
                      err |-> c.err, requeueAfter |-> 0]

---------------------------------------------------------------------------
(* Teardown, finalizer.go                                                  *)
(* io.failAt: the ordinal of the invocation's API call that fails          *)
(* transiently (0: none); io.vanish: the objects another actor removes     *)
(* between the read of the object and the delete request for it.           *)

HostedClusterObject(labels) ==
    [Kind |-> "HostedCluster", Name |-> "a", Namespace |-> "n1",
     Labels |-> labels, DeletionTimestamp |-> Nil]

NodePoolObject(labels) ==
    [Kind |-> "NodePool", Name |-> "a", Namespace |-> "n1",
     Labels |-> labels, DeletionTimestamp |-> Nil]

\* the label maps a stored HostedCluster or NodePool of the model may carry
DependentLabelMaps == {OwnerLabels("a", "n1"), NilLabels}

\* a variant that takes the cluster's admin kubeconfig for a derived secret
secretNames_AdminKubeconfig(b) ==
    <<b.Name \o "-pull-secret", b.Name \o "-ssh-key", b.Name \o "-admin-kubeconfig">>

secretNames(b) ==
    <<b.Name \o "-pull-secret", b.Name \o "-ssh-key", b.Name \o "-etcd-encryption-key">>

Fails(io, n) == io.failAt = n

\* client.Delete(ctx, obj): no precondition on the version token; an object
\* with finalizers is marked for deletion and stays until they have run.  The
\* engine reads of the mark only whether it is set (its age goes to a log line),
\* so every mark of a dependent is written as Marked.
Marked == Some(0)

ClientDelete(cell, fault, t) ==
    IF fault THEN [err |-> ErrTransient, cell |-> cell]
    ELSE IF IsNil(cell.obj) THEN [err |-> ErrNotFound, cell |-> cell]
    ELSE IF ~IsNil(Deref(cell.obj).DeletionTimestamp) THEN [err |-> "", cell |-> cell]
    ELSE [err |-> "",
          cell |-> [obj |-> Some([Deref(cell.obj) EXCEPT !.DeletionTimestamp = Marked]),
                    rv |-> cell.rv + 1]]

\* client.Get of a kind whose CRD may not be installed
ClientGetKind(cell, installed, fault) ==
    IF fault THEN [err |-> ErrTransient, obj |-> Nil]
    ELSE IF ~installed THEN [err |-> ErrNoMatch, obj |-> Nil]
    ELSE ClientGet(cell, FALSE)

\* a variant that reports the dependent gone as soon as its delete is accepted
deleteResource_NoWait(b, cell, resourceKind, installed, io, n, t) ==
    LET get == ClientGetKind(cell, installed, Fails(io, n + 1))
        getOp == Op("Get", resourceKind, b.Name, get.err, Nil)
        del == ClientDelete(cell, Fails(io, n + 2), t)
        delOp == Op("Delete", resourceKind, b.Name, del.err, get.obj)
    IN  IF get.err # ""
        THEN [deleted |-> IsNotFound(get.err) \/ IsNoMatchError(get.err),
              err |-> IF IsNotFound(get.err) \/ IsNoMatchError(get.err) THEN ""
                      ELSE Wrap("failed to get " \o resourceKind, get.err),
              cell |-> cell, ops |-> <<getOp>>]
        ELSE IF ~IsNil(Deref(get.obj).DeletionTimestamp)
        THEN [deleted |-> FALSE, err |-> "", cell |-> cell, ops |-> <<getOp>>]
        ELSE [deleted |-> del.err = "",
              err |-> IF del.err = "" THEN ""
                      ELSE Wrap("failed to delete " \o resourceKind, del.err),
              cell |-> del.cell, ops |-> <<getOp, delOp>>]

\* a variant that requests the delete whether or not the dependent is marked
deleteResource_DeletesMarked(b, cell, resourceKind, installed, io, n, t) ==
    LET get == ClientGetKind(cell, installed, Fails(io, n + 1))
        getOp == Op("Get", resourceKind, b.Name, get.err, Nil)
        del == ClientDelete(cell, Fails(io, n + 2), t)
        delOp == Op("Delete", resourceKind, b.Name, del.err, get.obj)
    IN  IF get.err # ""
        THEN [deleted |-> IsNotFound(get.err) \/ IsNoMatchError(get.err),
              err |-> IF IsNotFound(get.err) \/ IsNoMatchError(get.err) THEN ""
                      ELSE Wrap("failed to get " \o resourceKind, get.err),
              cell |-> cell, ops |-> <<getOp>>]
        ELSE [deleted |-> FALSE,
              err |-> IF del.err = "" THEN ""
                      ELSE Wrap("failed to delete " \o resourceKind, del.err),
              cell |-> del.cell, ops |-> <<getOp, delOp>>]

\* deleteResource: n is the number of API calls the invocation made before
deleteResource(b, cell, resourceKind, installed, io, n, t) ==
    LET get == ClientGetKind(cell, installed, Fails(io, n + 1))
        getOp == Op("Get", resourceKind, b.Name, get.err, Nil)
    IN  IF get.err # ""
        THEN IF IsNotFound(get.err) \/ IsNoMatchError(get.err)
             THEN [deleted |-> TRUE, err |-> "", cell |-> cell, ops |-> <<getOp>>]
             ELSE [deleted |-> FALSE,
                   err |-> Wrap("failed to get " \o resourceKind, get.err),
                   cell |-> cell, ops |-> <<getOp>>]
        ELSE LET obj == Deref(get.obj)
             IN  IF IsNil(obj.DeletionTimestamp)
                 THEN LET raced == AfterRace(cell, IF resourceKind \in io.vanish
                                                   THEN Some(Nil) ELSE Nil)
                          del == ClientDelete(raced, Fails(io, n + 2), t)
                          delOp == Op("Delete", resourceKind, obj.Name, del.err,
                                      Some(obj))
                      IN  IF del.err # ""
                          THEN IF IsNotFound(del.err)
                               THEN [deleted |-> TRUE, err |-> "", cell |-> del.cell,
                                     ops |-> <<getOp, delOp>>]
                               ELSE [deleted |-> FALSE,
                                     err |-> Wrap("failed to delete " \o resourceKind,
                                                  del.err),
                                     cell |-> del.cell, ops |-> <<getOp, delOp>>]
                          ELSE [deleted |-> FALSE, err |-> "", cell |-> del.cell,
                                ops |-> <<getOp, delOp>>]
                 ELSE [deleted |-> FALSE, err |-> "", cell |-> cell, ops |-> <<getOp>>]

\* a variant that takes the absence of the secret for a failure
deleteSecret_NotFoundIsError(secretName, present, io, n) ==
    LET getErr == IF Fails(io, n + 1) THEN ErrTransient
                  ELSE IF secretName \notin present THEN ErrNotFound ELSE ""
        getOp == Op("Get", "Secret", secretName, getErr, Nil)
    IN  IF getErr # ""
        THEN [err |-> Wrap("failed to get secret " \o secretName, getErr),
              present |-> present, ops |-> <<getOp>>]
        ELSE [err |-> "", present |-> present \ {secretName},
              ops |-> <<getOp, Op("Delete", "Secret", secretName, "", Nil)>>]

\* deleteSecret: present is the set of the stored secrets' names
deleteSecret(secretName, present, io, n) ==
    LET getErr == IF Fails(io, n + 1) THEN ErrTransient
                  ELSE IF secretName \notin present THEN ErrNotFound ELSE ""
        getOp == Op("Get", "Secret", secretName, getErr, Nil)
    IN  IF getErr # ""
        THEN IF IsNotFound(getErr)
             THEN [err |-> "", present |-> present, ops |-> <<getOp>>]
             ELSE [err |-> Wrap("failed to get secret " \o secretName, getErr),
                   present |-> present, ops |-> <<getOp>>]
        ELSE LET raced == IF secretName \in io.vanish
                          THEN present \ {secretName} ELSE present
                 delErr == IF Fails(io, n + 2) THEN ErrTransient
                           ELSE IF secretName \notin raced THEN ErrNotFound ELSE ""
                 delOp == Op("Delete", "Secret", secretName, delErr, Nil)
                 left == IF delErr = "" THEN raced \ {secretName} ELSE raced
             IN  IF delErr # "" /\ ~IsNotFound(delErr)
                 THEN [err |-> Wrap("failed to delete secret " \o secretName, delErr),
                       present |-> left, ops |-> <<getOp, delOp>>]
                 ELSE [err |-> "", present |-> left, ops |-> <<getOp, delOp>>]

\* a variant of the loop that goes on to the next name after a failure
RECURSIVE deleteSecretsFrom_KeepsGoing(_, _, _, _, _)
deleteSecretsFrom_KeepsGoing(names, i, present, io, n) ==
    IF i > Len(names)
    THEN [err |-> "", present |-> present, ops |-> <<>>]
    ELSE LET one == deleteSecret(names[i], present, io, n)
             rest == deleteSecretsFrom_KeepsGoing(names, i + 1, one.present, io,
                                                  n + Len(one.ops))
         IN  [err |-> IF one.err # "" THEN one.err ELSE rest.err,
              present |-> rest.present, ops |-> one.ops \o rest.ops]

\* the loop of deleteSecrets from its i-th name on
RECURSIVE deleteSecretsFrom(_, _, _, _, _)
deleteSecretsFrom(names, i, present, io, n) ==
    IF i > Len(names)
    THEN [err |-> "", present |-> present, ops |-> <<>>]
    ELSE LET one == deleteSecret(names[i], present, io, n)
         IN  IF one.err # ""
             THEN one
             ELSE LET rest == deleteSecretsFrom(names, i + 1, one.present, io,
                                                n + Len(one.ops))
                  IN  [err |-> rest.err, present |-> rest.present,
                       ops |-> one.ops \o rest.ops]

deleteSecrets(b, present, io, n) == deleteSecretsFrom(secretNames(b), 1, present, io, n)


\* a time.Duration of d clock units as fmt prints it with %v
FormatDuration(d) ==
    LET h == (d * 30) \div 60
        m == (d * 30) % 60
    IN  IF h > 0 THEN ToString(h) \o "h" \o ToString(m) \o "m0s"
        ELSE ToString(m) \o "m0s"

CleanupCondition(status, reason, message, t) ==
    Condition(HostedClusterCleanup, status, reason, message, t, 0)

\* a variant that goes on to the HostedCluster although the first status
\* write failed
HandleFinalizerCleanup_GoesOn(b, fresh, stored, hcCell, npCell, present, installed, io, t) ==
    LET inProgress == SetStatusCondition(b.Conditions,
                        CleanupCondition(ConditionFalse, "CleanupInProgress",
                            "Deleting HostedCluster and associated resources", t))
        cr1 == [b EXCEPT !.Conditions = inProgress.conditions]
        up1 == ClientStatusUpdate(stored, cr1, fresh, Fails(io, 1))
        h == deleteResource(up1.obj, hcCell, "HostedCluster",
                            "HostedCluster" \in installed, io, 1, t)
    IN  [cr |-> up1.obj, stored |-> up1.stored,
         ops |-> <<StatusUpdateOp(cr1, up1.err)>> \o h.ops,
         err |-> IF up1.err # "" THEN up1.err ELSE h.err,
         requeueAfter |-> IF h.err = "" /\ ~h.deleted THEN DeletionRequeueInterval ELSE 0,
         hc |-> h.cell, np |-> npCell, secrets |-> present]

\* a variant that gives up when the timeout is reached, not only when it is
\* exceeded
HandleFinalizerCleanup_TimeoutAtEqual(b, fresh, stored, hcCell, npCell, present, installed, io, t) ==
    LET inProgress == SetStatusCondition(b.Conditions,
                        CleanupCondition(ConditionFalse, "CleanupInProgress",
                            "Deleting HostedCluster and associated resources", t))
        cr1 == [b EXCEPT !.Conditions = inProgress.conditions]
        up1 == ClientStatusUpdate(stored, cr1, fresh, Fails(io, 1))
        ops1 == <<StatusUpdateOp(cr1, up1.err)>>
        untouched == [hc |-> hcCell, np |-> npCell, secrets |-> present]
    IN  IF up1.err # ""
        THEN [cr |-> up1.obj, stored |-> up1.stored, ops |-> ops1,
              err |-> up1.err, requeueAfter |-> 0] @@ untouched
        ELSE IF IsNil(up1.obj.DeletionTimestamp)
        THEN [cr |-> up1.obj, stored |-> up1.stored, ops |-> ops1,
              err |-> "deletionTimestamp is nil", requeueAfter |-> 0] @@ untouched
        ELSE
        LET elapsedTime == t - Deref(up1.obj.DeletionTimestamp)
        IN  IF elapsedTime >= DeletionTimeout
            THEN LET timedOut == SetStatusCondition(up1.obj.Conditions,
                                    CleanupCondition(ConditionFalse, "CleanupTimeout",
                                        "HostedCluster deletion timeout exceeded after "
                                            \o FormatDuration(elapsedTime), t))
                     cr2 == [up1.obj EXCEPT !.Conditions = timedOut.conditions]
                     up2 == ClientStatusUpdate(up1.stored, cr2, fresh, Fails(io, 2))
                 IN  [cr |-> up2.obj, stored |-> up2.stored,
                      ops |-> ops1 \o <<StatusUpdateOp(cr2, up2.err)>>,
                      err |-> "", requeueAfter |-> 0] @@ untouched
            ELSE
            LET h == deleteResource(up1.obj, hcCell, "HostedCluster",
                                    "HostedCluster" \in installed, io, 1, t)
                ops2 == ops1 \o h.ops
            IN  IF h.err # ""
                THEN [cr |-> up1.obj, stored |-> up1.stored, ops |-> ops2,
                      err |-> h.err, requeueAfter |-> 0,
                      hc |-> h.cell, np |-> npCell, secrets |-> present]
                ELSE IF ~h.deleted
                THEN [cr |-> up1.obj, stored |-> up1.stored, ops |-> ops2,
                      err |-> "", requeueAfter |-> DeletionRequeueInterval,
                      hc |-> h.cell, np |-> npCell, secrets |-> present]
                ELSE
                LET p == deleteResource(up1.obj, npCell, "NodePool",
                                        "NodePool" \in installed, io, Len(ops2), t)
                    ops3 == ops2 \o p.ops
                IN  IF p.err # ""
                    THEN [cr |-> up1.obj, stored |-> up1.stored, ops |-> ops3,
                          err |-> p.err, requeueAfter |-> 0,
                          hc |-> h.cell, np |-> p.cell, secrets |-> present]
                    ELSE IF ~p.deleted
                    THEN [cr |-> up1.obj, stored |-> up1.stored, ops |-> ops3,
                          err |-> "", requeueAfter |-> DeletionRequeueInterval,
                          hc |-> h.cell, np |-> p.cell, secrets |-> present]
                    ELSE
                    LET d == deleteSecrets(up1.obj, present, io, Len(ops3))
                        ops4 == ops3 \o d.ops
                    IN  IF d.err # ""
                        THEN [cr |-> up1.obj, stored |-> up1.stored, ops |-> ops4,
                              err |-> d.err, requeueAfter |-> 0,
                              hc |-> h.cell, np |-> p.cell, secrets |-> d.present]
                        ELSE
                        LET succeeded == SetStatusCondition(up1.obj.Conditions,
                                CleanupCondition(ConditionTrue, "CleanupSucceeded",
                                    "HostedCluster and associated resources deleted successfully",
                                    t))
                            cr3 == [up1.obj EXCEPT !.Conditions = succeeded.conditions]
                            up3 == ClientStatusUpdate(up1.stored, cr3, fresh,
                                                      Fails(io, Len(ops4) + 1))
                        IN  [cr |-> up3.obj, stored |-> up3.stored,
                             ops |-> ops4 \o <<StatusUpdateOp(cr3, up3.err)>>,
                             err |-> up3.err, requeueAfter |-> 0,
                             hc |-> h.cell, np |-> p.cell, secrets |-> d.present]

\* HandleFinalizerCleanup on the held object b at time t
HandleFinalizerCleanup(b, fresh, stored, hcCell, npCell, present, installed, io, t) ==
    LET inProgress == SetStatusCondition(b.Conditions,
                        CleanupCondition(ConditionFalse, "CleanupInProgress",
                            "Deleting HostedCluster and associated resources", t))
        cr1 == [b EXCEPT !.Conditions = inProgress.conditions]
        up1 == ClientStatusUpdate(stored, cr1, fresh, Fails(io, 1))
        ops1 == <<StatusUpdateOp(cr1, up1.err)>>
        untouched == [hc |-> hcCell, np |-> npCell, secrets |-> present]
    IN  IF up1.err # ""
        THEN [cr |-> up1.obj, stored |-> up1.stored, ops |-> ops1,
              err |-> up1.err, requeueAfter |-> 0] @@ untouched
        ELSE IF IsNil(up1.obj.DeletionTimestamp)
        THEN [cr |-> up1.obj, stored |-> up1.stored, ops |-> ops1,
              err |-> "deletionTimestamp is nil", requeueAfter |-> 0] @@ untouched
        ELSE
        LET elapsedTime == t - Deref(up1.obj.DeletionTimestamp)
        IN  IF elapsedTime > DeletionTimeout
            THEN LET timedOut == SetStatusCondition(up1.obj.Conditions,
                                    CleanupCondition(ConditionFalse, "CleanupTimeout",
                                        "HostedCluster deletion timeout exceeded after "
                                            \o FormatDuration(elapsedTime), t))
                     cr2 == [up1.obj EXCEPT !.Conditions = timedOut.conditions]
                     up2 == ClientStatusUpdate(up1.stored, cr2, fresh, Fails(io, 2))
                 IN  [cr |-> up2.obj, stored |-> up2.stored,
                      ops |-> ops1 \o <<StatusUpdateOp(cr2, up2.err)>>,
                      err |-> "", requeueAfter |-> 0] @@ untouched
            ELSE
            LET h == deleteResource(up1.obj, hcCell, "HostedCluster",
                                    "HostedCluster" \in installed, io, 1, t)
                ops2 == ops1 \o h.ops
            IN  IF h.err # ""
                THEN [cr |-> up1.obj, stored |-> up1.stored, ops |-> ops2,
                      err |-> h.err, requeueAfter |-> 0,
                      hc |-> h.cell, np |-> npCell, secrets |-> present]
                ELSE IF ~h.deleted
                THEN [cr |-> up1.obj, stored |-> up1.stored, ops |-> ops2,
                      err |-> "", requeueAfter |-> DeletionRequeueInterval,
                      hc |-> h.cell, np |-> npCell, secrets |-> present]
                ELSE
                LET p == deleteResource(up1.obj, npCell, "NodePool",
                                        "NodePool" \in installed, io, Len(ops2), t)
                    ops3 == ops2 \o p.ops
                IN  IF p.err # ""
                    THEN [cr |-> up1.obj, stored |-> up1.stored, ops |-> ops3,
                          err |-> p.err, requeueAfter |-> 0,
                          hc |-> h.cell, np |-> p.cell, secrets |-> present]
                    ELSE IF ~p.deleted
                    THEN [cr |-> up1.obj, stored |-> up1.stored, ops |-> ops3,
                          err |-> "", requeueAfter |-> DeletionRequeueInterval,
                          hc |-> h.cell, np |-> p.cell, secrets |-> present]
                    ELSE
                    LET d == deleteSecrets(up1.obj, present, io, Len(ops3))
                        ops4 == ops3 \o d.ops
                    IN  IF d.err # ""
                        THEN [cr |-> up1.obj, stored |-> up1.stored, ops |-> ops4,
                              err |-> d.err, requeueAfter |-> 0,
                              hc |-> h.cell, np |-> p.cell, secrets |-> d.present]
                        ELSE
                        LET succeeded == SetStatusCondition(up1.obj.Conditions,
                                CleanupCondition(ConditionTrue, "CleanupSucceeded",
                                    "HostedCluster and associated resources deleted successfully",
                                    t))
                            cr3 == [up1.obj EXCEPT !.Conditions = succeeded.conditions]
                            up3 == ClientStatusUpdate(up1.stored, cr3, fresh,
                                                      Fails(io, Len(ops4) + 1))
                        IN  [cr |-> up3.obj, stored |-> up3.stored,
                             ops |-> ops4 \o <<StatusUpdateOp(cr3, up3.err)>>,
                             err |-> up3.err, requeueAfter |-> 0,
                             hc |-> h.cell, np |-> p.cell, secrets |-> d.present]

---------------------------------------------------------------------------
(* BuildServicePublishingStrategy, servicepublishing.go *)

\* hyperv1.ServiceType and hyperv1.PublishingStrategyType values
APIServer == "APIServer"
OAuthServer == "OAuthServer"
OIDC == "OIDC"
Konnectivity == "Konnectivity"
Ignition == "Ignition"
LoadBalancer == "LoadBalancer"
NodePort == "NodePort"
Route == "Route"

\* the bytes of a service name, which is what Go's < on strings compares
Bytes(service) ==
    CASE service = APIServer -> <<65, 80, 73, 83, 101, 114, 118, 101, 114>>
      [] service = OAuthServer -> <<79, 65, 117, 116, 104, 83, 101, 114, 118, 101, 114>>
      [] service = OIDC -> <<79, 73, 68, 67>>
      [] service = Konnectivity ->
            <<75, 111, 110, 110, 101, 99, 116, 105, 118, 105, 116, 121>>
      [] service = Ignition -> <<73, 103, 110, 105, 116, 105, 111, 110>>

\* x < y on strings: at the first position where they differ x is smaller, or
\* x is a proper prefix of y
StringLess(x, y) ==
    \E k \in 1..(Len(x) + 1) :
        /\ \A j \in 1..(k - 1) : j <= Len(y) /\ x[j] = y[j]
        /\ k <= Len(y)
        /\ k <= Len(x) => x[k] < y[k]

\* the less function handed to sort.Slice
ServiceLess(a, b) == StringLess(Bytes(a.Service), Bytes(b.Service))

\* a variant that leaves the slice in the order it was built
SortSlice_AsBuilt(slice) == slice

\* sort.Slice(result, less): the slice in ascending order.  sort.Slice is not
\* stable; the keys here are distinct, so the order is determined.
RECURSIVE SortSlice(_)
SortSlice(slice) ==
    IF Len(slice) <= 1 THEN slice
    ELSE LET sorted == SortSlice(SubSeq(slice, 1, Len(slice) - 1))
             last == slice[Len(slice)]
             before == SelectSeq(sorted, LAMBDA m : ~ServiceLess(last, m))
             after == SelectSeq(sorted, LAMBDA m : ServiceLess(last, m))
         IN  before \o <<last>> \o after

Mapping(service, type, nodePort) ==
    [Service |-> service, Type |-> type, NodePort |-> nodePort]

\* the NodePort branch before the sort
NodePortMappings(nodeAddress) ==
    LET services == <<APIServer, OAuthServer, OIDC, Konnectivity, Ignition>>
    IN  [k \in 1..Len(services) |->
            Mapping(services[k], NodePort, Some([Address |-> nodeAddress]))]

\* a variant that answers in NodePort mode whatever is asked
BuildServicePublishingStrategy_NodePortOnly(exposeThroughLoadBalancer, nodeAddress) ==
    SortSlice(NodePortMappings(nodeAddress))

BuildServicePublishingStrategy(exposeThroughLoadBalancer, nodeAddress) ==
    IF exposeThroughLoadBalancer
    THEN <<Mapping(APIServer, LoadBalancer, Nil),
           Mapping(OAuthServer, Route, Nil),
           Mapping(Konnectivity, Route, Nil),
           Mapping(Ignition, Route, Nil)>>
    ELSE SortSlice(NodePortMappings(nodeAddress))

---------------------------------------------------------------------------
(* The state machine *)

NoInv == [fn |-> "none", ops |-> <<>>, events |-> <<>>, err |-> "", requeueAfter |-> 0]
NoRun == [args |-> Nil, calls |-> 0, differed |-> FALSE, writes |-> 0, events |-> 0]
NoArgs == [fn |-> "none"]

Invocation(fn, r, requeueAfter) ==
    [fn |-> fn, ops |-> r.ops, events |-> r.events, err |-> r.err,
     requeueAfter |-> requeueAfter]

\* what is kept of the invocation before the last: the function called and
\* what came of it
Outcome(i) ==
    IF i.err # "" THEN "failed"
    ELSE IF \E k \in 1..Len(i.ops) : i.ops[k].op = "Create" THEN "created"
    ELSE IF \E k \in 1..Len(i.ops) : i.ops[k].op = "Update" THEN "updated"
    ELSE "unchanged"
Summary(i) == [fn |-> i.fn, outcome |-> IF i.fn = "none" THEN "none" ELSE Outcome(i)]
NoPrev == [fn |-> "none", outcome |-> "none"]

Held(b) == [obj |-> b, fresh |-> TRUE]

AllKinds == {"HostedCluster", "NodePool"}

\* what a specification leaves at rest
NoUpsertState == pool = Nil /\ adv = Nil
NoTeardownState ==
    hc = Nil /\ np = Nil /\ secrets = {} /\ kinds = AllKinds /\ trigger = TRUE
NoLog == inv = NoInv /\ prev = NoPrev /\ run = NoRun
NoCall == fnArgs = NoArgs /\ fnRes = Nil

UpsertVars == <<pool, adv>>
TeardownVars == <<hc, np, secrets, kinds, trigger>>
CallVars == <<fnArgs, fnRes>>

(* ---- the upsert calls ---- *)

\* what another actor may leave stored between an ensure call's read and write
PoolRaces ==
    {Nil, Some(Nil)} \cup
    {Some(Some(o)) : o \in {x \in PoolObjects :
        /\ x.Labels \in {NilLabels, OwnerLabels("a", "n1")}
        /\ x.Spec.Addresses \in {<<"10.0.0.1/32">>, <<"10.0.0.2/32">>}
        /\ x.Spec.AutoAssign = Some(TRUE) /\ x.Spec.AllocateTo # Nil}}

AdvRaces ==
    {Nil, Some(Nil)} \cup
    {Some(Some(o)) : o \in {x \in AdvObjects :
        /\ x.Labels \in {NilLabels, OwnerLabels("a", "n1")}
        /\ x.Spec.IPAddressPools \in {<<"a">>, <<>>}}}

EnsureIO(races) == [getErr : BOOLEAN, race : races, writeErr : BOOLEAN]

\* the engine reads the parent and calls ensureIPAddressPool
EnsurePoolCall ==
    \E io \in EnsureIO(PoolRaces) :
        \E r \in {ensureIPAddressPool(bridge, Cell(pool), io)} :
            /\ pool' = r.cell.obj
            /\ cr' = Held(bridge)
            /\ prev' = Summary(inv)
            /\ inv' = Invocation("ensureIPAddressPool", r, 0)
            /\ UNCHANGED <<bridge, adv, now, run, TeardownVars, CallVars>>

\* the engine reads the parent and calls ensureL2Advertisement
EnsureAdvCall ==
    \E io \in EnsureIO(AdvRaces) :
        \E r \in {ensureL2Advertisement(bridge, Cell(adv), io)} :
            /\ adv' = r.cell.obj
            /\ cr' = Held(bridge)
            /\ prev' = Summary(inv)
            /\ inv' = Invocation("ensureL2Advertisement", r, 0)
            /\ UNCHANGED <<bridge, pool, now, run, TeardownVars, CallVars>>

(* ---- the environment of the upsert ---- *)

\* another actor creates the IPAddressPool, or replaces what is stored
OtherActorWritesPool ==
    \E o \in PoolObjects :
        /\ pool # Some(o)
        /\ pool' = Some(o)
        /\ inv' = NoInv /\ prev' = NoPrev
        /\ UNCHANGED <<bridge, cr, adv, now, run, TeardownVars, CallVars>>

OtherActorDeletesPool ==
    /\ pool # Nil
    /\ pool' = Nil
    /\ inv' = NoInv /\ prev' = NoPrev
    /\ UNCHANGED <<bridge, cr, adv, now, run, TeardownVars, CallVars>>

OtherActorWritesAdv ==
    \E o \in AdvObjects :
        /\ adv # Some(o)
        /\ adv' = Some(o)
        /\ inv' = NoInv /\ prev' = NoPrev
        /\ UNCHANGED <<bridge, cr, pool, now, run, TeardownVars, CallVars>>

OtherActorDeletesAdv ==
    /\ adv # Nil
    /\ adv' = Nil
    /\ inv' = NoInv /\ prev' = NoPrev
    /\ UNCHANGED <<bridge, cr, pool, now, run, TeardownVars, CallVars>>

\* the user edits the parent's spec: the generation is raised, and an object
\* read before holds a stale version token
EditParentSpec ==
    \E vip \in VirtualIPs :
        /\ bridge.Generation < MaxGeneration
        /\ vip # bridge.Spec.VirtualIP
        /\ bridge' = [bridge EXCEPT !.Spec.VirtualIP = vip,
                                    !.Generation = bridge.Generation + 1]
        /\ cr' = [cr EXCEPT !.fresh = FALSE]
        /\ inv' = NoInv /\ prev' = NoPrev
        /\ UNCHANGED <<pool, adv, now, run, TeardownVars, CallVars>>

InitEnsure ==
    /\ \E vip \in VirtualIPs : bridge = NewBridge(vip, TRUE)
    /\ cr = Held(bridge)
    /\ now = 0
    /\ NoUpsertState /\ NoTeardownState /\ NoLog /\ NoCall

NextEnsure ==
    \/ EnsurePoolCall
    \/ EnsureAdvCall
    \/ OtherActorWritesPool
    \/ OtherActorDeletesPool
    \/ OtherActorWritesAdv
    \/ OtherActorDeletesAdv
    \/ EditParentSpec

SpecEnsure == InitEnsure /\ [][NextEnsure]_vars

(* ---- setCondition, called on the held parent object ---- *)

\* the (status, reason, message) ConfigureMetalLB passes to setCondition
CondArgs ==
    { [status |-> ConditionTrue, reason |-> "MetalLBReady",
       message |-> "MetalLB configured successfully"],
      [status |-> ConditionFalse, reason |-> "CreatingIPAddressPool",
       message |-> "Failed to create/update IPAddressPool: "
                        \o Wrap("creating IPAddressPool", ErrTransient)],
      [status |-> ConditionFalse, reason |-> "CreatingIPAddressPool",
       message |-> "Failed to create/update IPAddressPool: "
                        \o Wrap("getting IPAddressPool", ErrTransient)],
      [status |-> ConditionFalse, reason |-> "L2AdvertisementFailed",
       message |-> "Failed to create/update L2Advertisement: "
                        \o Wrap("getting L2Advertisement", ErrTransient)] }

\* whether the held object's MetalLBConfigured condition is not yet the one
\* the arguments describe
DiffersFromHeld(b, a) ==
    \A i \in 1..Len(b.Conditions) :
        b.Conditions[i].Type = MetalLBConfigured =>
            \/ b.Conditions[i].Status # a.status
            \/ b.Conditions[i].Reason # a.reason
            \/ b.Conditions[i].Message # a.message

\* a run: consecutive setCondition calls with the same arguments on the held
\* object, with the status writes requested and the events emitted in it
SetConditionCall ==
    \E a \in CondArgs, fault \in BOOLEAN :
        \E r \in {setCondition(cr.obj, cr.fresh, bridge, a.status, a.reason,
                                a.message, now, fault)} :
        LET continues == run.args = Some(a)
        IN  /\ continues => run.calls < MaxRun
            /\ bridge' = r.stored
            /\ cr' = [cr EXCEPT !.obj = r.cr]
            /\ inv' = Invocation("setCondition", r, 0)
            /\ prev' = NoPrev
            /\ run' = IF continues
                      THEN [run EXCEPT !.calls = run.calls + 1,
                                       !.writes = run.writes + Len(r.ops),
                                       !.events = run.events + Len(r.events)]
                      ELSE [args |-> Some(a), calls |-> 1,
                            differed |-> DiffersFromHeld(cr.obj, a),
                            writes |-> Len(r.ops), events |-> Len(r.events)]
            /\ UNCHANGED <<now, UpsertVars, TeardownVars, CallVars>>

\* a new reconciliation reads the parent from the store
Fetch ==
    /\ cr # Held(bridge)
    /\ cr' = Held(bridge)
    /\ inv' = NoInv /\ prev' = NoPrev /\ run' = NoRun
    /\ UNCHANGED <<bridge, now, UpsertVars, TeardownVars, CallVars>>

\* time passes
Tick ==
    /\ now < MaxNow
    /\ now' = now + 1
    /\ inv' = NoInv /\ prev' = NoPrev
    /\ UNCHANGED <<bridge, cr, run, UpsertVars, TeardownVars, CallVars>>

InitCond ==
    /\ bridge = NewBridge("10.0.0.1", TRUE)
    /\ cr = Held(bridge)
    /\ now = 0
    /\ NoUpsertState /\ NoTeardownState /\ NoLog /\ NoCall

NextCond ==
    \/ SetConditionCall
    \/ Fetch
    \/ EditParentSpec
    \/ Tick

SpecCond == InitCond /\ [][NextCond]_vars

(* ---- ConfigureMetalLB, one reconciliation of the upsert path ---- *)

\* what the resources of a parent may be found as: absent, as the engine builds
\* them, drifted, or another actor's
ConfigurePoolObjects ==
    {o \in PoolObjects :
        /\ o.Labels \in {NilLabels, OwnerLabels("a", "n1")}
        /\ o.Spec \in {buildIPAddressPool(NewBridge("10.0.0.1", TRUE)).Spec,
                        [Addresses |-> <<"10.0.0.1/32">>, AllocateTo |-> Nil,
                         AutoAssign |-> Some(TRUE)]}}

ConfigureAdvObjects ==
    {o \in AdvObjects :
        /\ o.Labels \in {NilLabels, OwnerLabels("a", "n1")}
        /\ o.Spec.IPAddressPools \in {<<"a">>, <<>>}}

\* between an ensure call's read and its write another actor may store a
\* resource of its own, or remove the one stored
ConfigureIO ==
    [pool : [getErr : BOOLEAN, writeErr : BOOLEAN,
             race : {Nil} \cup {Some(Some(o)) : o \in
                        {x \in ConfigurePoolObjects : x.Labels = NilLabels
                            /\ ~IsNil(x.Spec.AllocateTo)}}],
     adv : [getErr : BOOLEAN, writeErr : BOOLEAN, race : {Nil, Some(Nil)}],
     statusErr : BOOLEAN]

\* the engine reads the parent and calls ConfigureMetalLB on it
Configure(io) ==
    ConfigureMetalLB(bridge, TRUE, bridge, Cell(pool), Cell(adv), io, now)

\* whether the stored conditions changed
Transitions(before, after) == IF before.Conditions # after.Conditions THEN 1 ELSE 0

\* the notifications setCondition emitted among the events of an invocation
ConditionNotifications(events) ==
    Cardinality({k \in 1..Len(events) :
        events[k].reason \in {"MetalLBConfigured", "MetalLBConfigurationFailed"}})

ConfigureCall ==
    \E io \in ConfigureIO : \E r \in {Configure(io)} :
        /\ bridge' = r.stored
        /\ cr' = Held(r.cr)
        /\ pool' = r.pool.obj
        /\ adv' = r.adv.obj
        /\ inv' = Invocation("ConfigureMetalLB", r, r.requeueAfter)
        /\ prev' = NoPrev
        /\ UNCHANGED <<now, run, TeardownVars, CallVars>>

OtherActorPutsPool ==
    \E o \in ConfigurePoolObjects :
        /\ pool # Some(o)
        /\ pool' = Some(o)
        /\ inv' = NoInv /\ prev' = NoPrev
        /\ UNCHANGED <<bridge, cr, adv, now, run, TeardownVars, CallVars>>

OtherActorPutsAdv ==
    \E o \in ConfigureAdvObjects :
        /\ adv # Some(o)
        /\ adv' = Some(o)
        /\ inv' = NoInv /\ prev' = NoPrev
        /\ UNCHANGED <<bridge, cr, pool, now, run, TeardownVars, CallVars>>

InitConfigure ==
    /\ \E expose \in BOOLEAN : bridge = NewBridge("10.0.0.1", expose)
    /\ cr = Held(bridge)
    /\ now = 0
    /\ NoUpsertState /\ NoTeardownState /\ NoLog /\ NoCall

NextConfigure ==
    \/ ConfigureCall
    \/ OtherActorPutsPool
    \/ OtherActorDeletesPool
    \/ OtherActorPutsAdv
    \/ OtherActorDeletesAdv
    \/ EditParentSpec

SpecConfigure == InitConfigure /\ [][NextConfigure]_vars

(* ---- repeated invocations of ConfigureMetalLB, counted ---- *)

\* a failing read of the pool and a failing status write
NotifyIO ==
    {io \in ConfigureIO :
        /\ ~io.pool.writeErr /\ io.pool.race = Nil
        /\ ~io.adv.getErr /\ ~io.adv.writeErr /\ io.adv.race = Nil}

\* the engine reads the parent and calls ConfigureMetalLB on it; run counts
\* the invocations, the condition notifications they emitted and the
\* transitions of the stored condition
RepeatedConfigure ==
    /\ run.calls < MaxRun
    /\ \E io \in NotifyIO : \E r \in {Configure(io)} :
        /\ bridge' = r.stored
        /\ cr' = Held(r.cr)
        /\ pool' = r.pool.obj
        /\ adv' = r.adv.obj
        /\ inv' = Invocation("ConfigureMetalLB", r, r.requeueAfter)
        /\ prev' = NoPrev
        /\ run' = [calls |-> run.calls + 1,
                   events |-> run.events + ConditionNotifications(r.events),
                   transitions |-> run.transitions + Transitions(bridge, r.stored)]
        /\ UNCHANGED <<now, TeardownVars, CallVars>>

InitNotify ==
    /\ bridge = NewBridge("10.0.0.1", TRUE)
    /\ cr = Held(bridge)
    /\ now = 0
    /\ NoUpsertState /\ NoTeardownState /\ NoCall
    /\ inv = NoInv /\ prev = NoPrev
    /\ run = [calls |-> 0, events |-> 0, transitions |-> 0]

NextNotify ==
    \/ RepeatedConfigure
    \/ EditParentSpec

SpecNotify == InitNotify /\ [][NextNotify]_vars

(* ---- the teardown ---- *)

DerivedSecrets == {secretNames(bridge)[i] : i \in 1..3}

\* at most one object vanishes between its read and its delete
Vanishings == {{}} \cup {{x} : x \in AllKinds \cup DerivedSecrets}

NoFault(vanish) == [failAt |-> 0, vanish |-> vanish]

\* the engine reads the parent and calls HandleFinalizerCleanup
Reconcile(io) ==
    HandleFinalizerCleanup(bridge, TRUE, bridge, Cell(hc), Cell(np), secrets, kinds, io,
                           now)

\* the API calls an invocation makes when none of them fails: the ordinals at
\* which one of them can fail
CallsOf(vanish) == Len(Reconcile(NoFault(vanish)).ops)

Cleanup(io) ==
    \E r \in {Reconcile(io)} :
        /\ bridge' = r.stored
        /\ cr' = Held(r.cr)
        /\ hc' = r.hc.obj
        /\ np' = r.np.obj
        /\ secrets' = r.secrets
        /\ inv' = [fn |-> "HandleFinalizerCleanup", ops |-> r.ops, events |-> <<>>,
                   err |-> r.err, requeueAfter |-> r.requeueAfter]
        /\ prev' = NoPrev
        /\ trigger' = (r.requeueAfter > 0 \/ r.err # "")
        /\ UNCHANGED <<kinds, now, run, UpsertVars, CallVars>>

\* an invocation at any moment, any one of its API calls failing or none
CleanupCall ==
    \E vanish \in Vanishings : \E failAt \in 0..CallsOf(vanish) :
        Cleanup([failAt |-> failAt, vanish |-> vanish])

\* an invocation the scheduler owes (the deletion event, a requested requeue, a
\* retry after an error), no API call failing
ScheduledCleanup == trigger /\ \E vanish \in Vanishings : Cleanup(NoFault(vanish))

\* the finalizers of a dependent marked for deletion have run: it is removed
FinalizeHostedCluster ==
    /\ ~IsNil(hc) /\ ~IsNil(Deref(hc).DeletionTimestamp)
    /\ hc' = Nil
    /\ inv' = NoInv /\ prev' = NoPrev
    /\ UNCHANGED <<bridge, cr, np, secrets, kinds, trigger, now, run, UpsertVars,
                   CallVars>>

FinalizeNodePool ==
    /\ ~IsNil(np) /\ ~IsNil(Deref(np).DeletionTimestamp)
    /\ np' = Nil
    /\ inv' = NoInv /\ prev' = NoPrev
    /\ UNCHANGED <<bridge, cr, hc, secrets, kinds, trigger, now, run, UpsertVars,
                   CallVars>>

\* the parent, its deletion requested at time 0 (or not at all), with any of
\* its dependents and derived secrets present
InitTeardownWith(deletions) ==
    /\ \E d \in deletions :
            bridge = [NewBridge("10.0.0.1", TRUE) EXCEPT !.DeletionTimestamp = d]
    /\ cr = Held(bridge)
    /\ kinds \in SUBSET AllKinds
    /\ hc \in {Nil} \cup {Some(HostedClusterObject(l)) : l \in DependentLabelMaps}
    /\ np \in {Nil} \cup {Some(NodePoolObject(l)) : l \in DependentLabelMaps}
    /\ "HostedCluster" \notin kinds => hc = Nil
    /\ "NodePool" \notin kinds => np = Nil
    /\ secrets \in SUBSET DerivedSecrets
    /\ trigger = TRUE
    /\ now = 0
    /\ NoUpsertState /\ NoLog /\ NoCall

\* the parent with its deletion requested, and the parent nobody asked to
\* delete with all of its dependents in place
InitTeardown ==
    \/ InitTeardownWith({Some(0)})
    \/ /\ InitTeardownWith({Nil})
       /\ ~IsNil(hc) /\ ~IsNil(np) /\ secrets = DerivedSecrets

NextTeardown ==
    \/ CleanupCall
    \/ FinalizeHostedCluster
    \/ FinalizeNodePool
    \/ Tick

SpecTeardown == InitTeardown /\ [][NextTeardown]_vars

\* another actor creates a HostedCluster of the parent's name anew
OtherActorCreatesHostedCluster ==
    /\ hc = Nil /\ "HostedCluster" \in kinds
    /\ \E l \in DependentLabelMaps : hc' = Some(HostedClusterObject(l))
    /\ inv' = NoInv /\ prev' = NoPrev
    /\ UNCHANGED <<bridge, cr, np, secrets, kinds, trigger, now, run, UpsertVars,
                   CallVars>>

\* the teardown with dependents that may come back
NextTeardownOpen ==
    \/ CleanupCall
    \/ FinalizeHostedCluster
    \/ FinalizeNodePool
    \/ OtherActorCreatesHostedCluster
    \/ Tick

SpecTeardownOpen == InitTeardown /\ [][NextTeardownOpen]_vars

InitTeardownLive == InitTeardownWith({Some(0)})

NextTeardownLive ==
    \/ ScheduledCleanup
    \/ FinalizeHostedCluster
    \/ FinalizeNodePool
    \/ Tick

\* store calls do not fail, and the store removes every dependent marked for
\* deletion
SpecTeardownLive ==
    /\ InitTeardownLive
    /\ [][NextTeardownLive]_vars
    /\ WF_vars(FinalizeHostedCluster)
    /\ WF_vars(FinalizeNodePool)

(* ---- teardown with abandoned invocations ---- *)

\* the last request an abandoned invocation got through before it was cut
\* short
CutAt(ops, done) ==
    IF done = 0 THEN [op |-> "none", kind |-> "none"]
    ELSE [op |-> ops[done].op, kind |-> ops[done].kind]

\* an invocation the scheduler owed is abandoned (the process dies) after the
\* first `done` of its requests: what those requests did to the store stays,
\* the rest of the invocation and its result are lost, and the restarted
\* engine owes the parent an invocation
Abandon(vanish, done) ==
    \E r \in {Reconcile([failAt |-> done + 1, vanish |-> vanish])} :
        /\ bridge' = r.stored
        /\ cr' = Held(r.stored)
        /\ hc' = r.hc.obj
        /\ np' = r.np.obj
        /\ secrets' = r.secrets
        /\ inv' = [fn |-> "Abandoned", ops |-> SubSeq(r.ops, 1, done), events |-> <<>>,
                   err |-> "", requeueAfter |-> 0]
        /\ prev' = NoPrev
        /\ trigger' = TRUE
        /\ run' = [abandoned |-> run.abandoned + 1, cut |-> CutAt(r.ops, done)]
        /\ UNCHANGED <<kinds, now, UpsertVars, CallVars>>

AbandonedCleanup ==
    /\ trigger
    /\ run.abandoned < MaxRun
    /\ \E vanish \in Vanishings : \E done \in 0..CallsOf(vanish) : Abandon(vanish, done)

InitTeardownCrash ==
    /\ \E d \in {Some(0)} :
            bridge = [NewBridge("10.0.0.1", TRUE) EXCEPT !.DeletionTimestamp = d]
    /\ cr = Held(bridge)
    /\ kinds \in SUBSET AllKinds
    /\ hc \in {Nil} \cup {Some(HostedClusterObject(l)) : l \in DependentLabelMaps}
    /\ np \in {Nil} \cup {Some(NodePoolObject(l)) : l \in DependentLabelMaps}
    /\ "HostedCluster" \notin kinds => hc = Nil
    /\ "NodePool" \notin kinds => np = Nil
    /\ secrets \in SUBSET DerivedSecrets
    /\ trigger = TRUE
    /\ now = 0
    /\ NoUpsertState /\ NoCall
    /\ inv = NoInv /\ prev = NoPrev
    /\ run = [abandoned |-> 0, cut |-> CutAt(<<>>, 0)]

NextTeardownCrash ==
    \/ ScheduledCleanup
    \/ AbandonedCleanup
    \/ FinalizeHostedCluster
    \/ FinalizeNodePool
    \/ Tick

\* the invocations that are not abandoned meet no failing store call, and the
\* store removes every dependent marked for deletion
SpecTeardownCrash ==
    /\ InitTeardownCrash
    /\ [][NextTeardownCrash]_vars
    /\ WF_vars(FinalizeHostedCluster)
    /\ WF_vars(FinalizeNodePool)

(* ---- teardown of a parent whose MetalLB resources are in place ---- *)

\* the parent, its deletion requested at time 0, with the pool and the
\* advertisement ConfigureMetalLB created for it and any of its dependents
\* and derived secrets
InitTeardownFrame ==
    /\ bridge = [NewBridge("10.0.0.1", TRUE) EXCEPT !.DeletionTimestamp = Some(0)]
    /\ cr = Held(bridge)
    /\ pool = Some(buildIPAddressPool(bridge))
    /\ adv = Some(buildL2Advertisement(bridge))
    /\ kinds \in SUBSET AllKinds
    /\ hc \in {Nil} \cup {Some(HostedClusterObject(l)) : l \in DependentLabelMaps}
    /\ np \in {Nil} \cup {Some(NodePoolObject(l)) : l \in DependentLabelMaps}
    /\ "HostedCluster" \notin kinds => hc = Nil
    /\ "NodePool" \notin kinds => np = Nil
    /\ secrets \in SUBSET DerivedSecrets
    /\ trigger = TRUE
    /\ now = 0
    /\ NoLog /\ NoCall

SpecTeardownFrame == InitTeardownFrame /\ [][NextTeardown]_vars

(* ---- two parents of one name ---- *)

\* a second parent of the same name in another namespace: both derive the
\* same resource names in the one fixed namespace
Sibling == [NewBridge("10.0.0.2", TRUE) EXCEPT !.Namespace = "n2"]
ParentNamespaces == {bridge.Namespace, Sibling.Namespace}
ParentIn(ns) == IF ns = bridge.Namespace THEN bridge ELSE Sibling
OtherParent(ns) == CHOOSE o \in ParentNamespaces : o # ns

EnsureOf(fn, b, cell, io) ==
    IF fn = "ensureIPAddressPool" THEN ensureIPAddressPool(b, cell, io)
    ELSE ensureL2Advertisement(b, cell, io)

Undisturbed == [getErr |-> FALSE, race |-> Nil, writeErr |-> FALSE]

\* the call created or updated the resource
Wrote(ops) ==
    \E k \in 1..Len(ops) : ops[k].op \in {"Create", "Update"} /\ ops[k].err = ""

\* the worker of the parent in ns runs the ensure call fn.  With overlap, the
\* worker of the other parent runs the same call between this call's read
\* and its write, and what it stored is what this call's write meets.
CollidingEnsure(ns, fn, overlap) ==
    LET kind == IF fn = "ensureIPAddressPool" THEN "IPAddressPool" ELSE "L2Advertisement"
        stored == IF fn = "ensureIPAddressPool" THEN pool ELSE adv
        between == EnsureOf(fn, ParentIn(OtherParent(ns)), Cell(stored), Undisturbed)
        race == IF overlap THEN Some(between.cell.obj) ELSE Nil
    IN  \E r \in {EnsureOf(fn, ParentIn(ns), Cell(stored),
                           [getErr |-> FALSE, race |-> race, writeErr |-> FALSE])} :
            /\ overlap => Wrote(between.ops) /\ Len(r.ops) = 2
            /\ IF fn = "ensureIPAddressPool"
               THEN pool' = r.cell.obj /\ adv' = adv
               ELSE adv' = r.cell.obj /\ pool' = pool
            /\ cr' = Held(ParentIn(ns))
            /\ inv' = Invocation(fn, r, 0)
            /\ prev' = NoPrev
            /\ fnArgs' = [fn |-> fn, namespace |-> ns, overlap |-> overlap]
            /\ run' = [run EXCEPT ![kind] =
                            @ \cup (IF overlap THEN {OtherParent(ns)} ELSE {})
                              \cup (IF Wrote(r.ops) THEN {ns} ELSE {})]
            /\ UNCHANGED <<bridge, now, fnRes, TeardownVars>>

CollidingEnsureCall ==
    \E ns \in ParentNamespaces, fn \in {"ensureIPAddressPool", "ensureL2Advertisement"},
       overlap \in BOOLEAN : CollidingEnsure(ns, fn, overlap)

\* the parent in n1 as created, its sibling in n2, nothing stored; run keeps
\* the parents that have created or updated the resource of each kind
InitCollision ==
    /\ \E vip \in VirtualIPs : bridge = NewBridge(vip, TRUE)
    /\ cr = Held(bridge)
    /\ now = 0
    /\ NoUpsertState /\ NoTeardownState /\ NoCall
    /\ inv = NoInv /\ prev = NoPrev
    /\ run = [IPAddressPool |-> {}, L2Advertisement |-> {}]

NextCollision ==
    \/ CollidingEnsureCall
    \/ EditParentSpec

SpecCollision == InitCollision /\ [][NextCollision]_vars

(* ---- ConfigureMetalLB while the parent's exposure is switched ---- *)

\* the user switches the exposure through a load balancer on or off
EditExposure ==
    /\ bridge.Generation < MaxGeneration
    /\ bridge' = [bridge EXCEPT
                    !.Spec.ExposeThroughLoadBalancer = ~bridge.Spec.ExposeThroughLoadBalancer,
                    !.Generation = bridge.Generation + 1]
    /\ cr' = [cr EXCEPT !.fresh = FALSE]
    /\ inv' = NoInv /\ prev' = NoPrev
    /\ UNCHANGED <<pool, adv, now, run, TeardownVars, CallVars>>

\* the store calls an invocation may see fail, nothing written under it
ExposureIO == {io \in ConfigureIO : IsNil(io.pool.race) /\ IsNil(io.adv.race)}

ExposureConfigureCall ==
    \E io \in ExposureIO : \E r \in {Configure(io)} :
        /\ bridge' = r.stored
        /\ cr' = Held(r.cr)
        /\ pool' = r.pool.obj
        /\ adv' = r.adv.obj
        /\ inv' = Invocation("ConfigureMetalLB", r, r.requeueAfter)
        /\ prev' = NoPrev
        /\ UNCHANGED <<now, run, TeardownVars, CallVars>>

NextExposure ==
    \/ ExposureConfigureCall
    \/ EditExposure
    \/ OtherActorPutsPool
    \/ OtherActorDeletesPool

SpecExposure == InitConfigure /\ [][NextExposure]_vars

(* ---- the life of the parent's conditions: upsert, then teardown ---- *)

\* a reconciliation of the upsert path reads the parent and sets the
\* MetalLBConfigured condition
SetConditionOnStored ==
    \E a \in CondArgs, fault \in BOOLEAN :
        \E r \in {setCondition(bridge, TRUE, bridge, a.status, a.reason, a.message,
                                now, fault)} :
            /\ bridge' = r.stored
            /\ cr' = Held(r.cr)
            /\ inv' = Invocation("setCondition", r, 0)
            /\ prev' = NoPrev
            /\ UNCHANGED <<now, run, UpsertVars, TeardownVars, CallVars>>

\* the user asks for the parent's deletion
RequestDeletion ==
    /\ IsNil(bridge.DeletionTimestamp)
    /\ bridge' = [bridge EXCEPT !.DeletionTimestamp = Some(now)]
    /\ cr' = Held(bridge')
    /\ inv' = NoInv /\ prev' = NoPrev
    /\ UNCHANGED <<now, run, UpsertVars, TeardownVars, CallVars>>

\* an invocation of HandleFinalizerCleanup at any moment, any one of its API
\* calls failing or none, no object vanishing under it
CleanupOnStored ==
    \E failAt \in 0..CallsOf({}) : Cleanup([failAt |-> failAt, vanish |-> {}])

\* the parent as created, its HostedCluster in place
InitConditions ==
    /\ bridge = NewBridge("10.0.0.1", TRUE)
    /\ cr = Held(bridge)
    /\ kinds = AllKinds
    /\ hc = Some(HostedClusterObject(OwnerLabels("a", "n1")))
    /\ np = Nil
    /\ secrets = {}
    /\ trigger = TRUE
    /\ now = 0
    /\ NoUpsertState /\ NoLog /\ NoCall

NextConditions ==
    \/ SetConditionOnStored
    \/ RequestDeletion
    \/ CleanupOnStored
    \/ FinalizeHostedCluster
    \/ Tick

SpecConditions == InitConditions /\ [][NextConditions]_vars

(* ---- deleteSecrets, called on the stored secrets ---- *)

SecretVanishings == {{}} \cup {{x} : x \in DerivedSecrets}

\* the calls deleteSecrets makes when none of them fails
SecretCallsOf(vanish) == Len(deleteSecrets(bridge, secrets, NoFault(vanish), 0).ops)

\* deleteSecrets, any one of its API calls failing or none
DeleteSecretsCall ==
    \E vanish \in SecretVanishings : \E failAt \in 0..SecretCallsOf(vanish) :
        \E r \in {deleteSecrets(bridge, secrets,
                                 [failAt |-> failAt, vanish |-> vanish], 0)} :
            /\ secrets' = r.present
            /\ prev' = Summary(inv)
            /\ inv' = [fn |-> "deleteSecrets", ops |-> r.ops, events |-> <<>>,
                       err |-> r.err, requeueAfter |-> 0]
            /\ UNCHANGED <<bridge, cr, hc, np, kinds, trigger, now, run, UpsertVars,
                           CallVars>>

\* another actor stores a secret under one of the derived names
OtherActorCreatesSecret ==
    \E s \in DerivedSecrets \ secrets :
        /\ secrets' = secrets \cup {s}
        /\ inv' = NoInv /\ prev' = NoPrev
        /\ UNCHANGED <<bridge, cr, hc, np, kinds, trigger, now, run, UpsertVars,
                       CallVars>>

InitSecrets ==
    /\ bridge = [NewBridge("10.0.0.1", TRUE) EXCEPT !.DeletionTimestamp = Some(0)]
    /\ cr = Held(bridge)
    /\ kinds = AllKinds /\ hc = Nil /\ np = Nil
    /\ secrets \in SUBSET DerivedSecrets
    /\ trigger = TRUE
    /\ now = 0
    /\ NoUpsertState /\ NoLog /\ NoCall

NextSecrets ==
    \/ DeleteSecretsCall
    \/ OtherActorCreatesSecret

SpecSecrets == InitSecrets /\ [][NextSecrets]_vars

(* ---- the pure functions, applied to inputs drawn by Init ---- *)

\* the node addresses the function is applied to: none, a host name, and
\* addresses of a network
NodeAddresses ==
    {"", "node.example.com", "192.168.1.100"}
    \cup {"10.0." \o ToString(i) \o "." \o ToString(j) : i \in 0..MaxOctet, j \in 0..MaxOctet}

InitPublishing ==
    /\ \E e \in BOOLEAN, a \in NodeAddresses :
            fnArgs = [fn |-> "BuildServicePublishingStrategy",
                      exposeThroughLoadBalancer |-> e, nodeAddress |-> a]
    /\ fnRes = Nil
    /\ bridge = NewBridge("10.0.0.1", TRUE)
    /\ cr = Held(bridge)
    /\ now = 0
    /\ NoUpsertState /\ NoTeardownState /\ NoLog

PublishingCall ==
    /\ fnArgs.fn = "BuildServicePublishingStrategy"
    /\ fnRes = Nil
    /\ fnRes' = Some(BuildServicePublishingStrategy(fnArgs.exposeThroughLoadBalancer,
                                                    fnArgs.nodeAddress))
    /\ UNCHANGED <<fnArgs, bridge, cr, now, inv, prev, run, UpsertVars, TeardownVars>>

NextPublishing == PublishingCall

SpecPublishing == InitPublishing /\ [][NextPublishing]_vars

Identities == {[NewBridge("10.0.0.1", TRUE) EXCEPT !.Name = n, !.Namespace = ns] :
                    n \in Idents, ns \in Idents}

InitOwned ==
    /\ \E l \in AllLabelMaps, b \in Identities :
            fnArgs = [fn |-> "isOwnedByBridge",
                      obj |-> [Kind |-> "IPAddressPool", Name |-> b.Name,
                               Namespace |-> OpenshiftOperatorsNamespace,
                               Labels |-> l, Spec |-> buildIPAddressPool(b).Spec],
                      bridge |-> b]
    /\ fnRes = Nil
    /\ bridge = NewBridge("10.0.0.1", TRUE)
    /\ cr = Held(bridge)
    /\ now = 0
    /\ NoUpsertState /\ NoTeardownState /\ NoLog

IsOwnedCall ==
    /\ fnArgs.fn = "isOwnedByBridge"
    /\ fnRes = Nil
    /\ fnRes' = Some(isOwnedByBridge(fnArgs.obj, fnArgs.bridge))
    /\ UNCHANGED <<fnArgs, bridge, cr, now, inv, prev, run, UpsertVars, TeardownVars>>

NextOwned == IsOwnedCall

SpecOwned == InitOwned /\ [][NextOwned]_vars

\* a type without a Spec field
SecretObjects ==
    { [Kind |-> "Secret", Name |-> "a-pull-secret", Namespace |-> "n1",
       Labels |-> l, Data |-> d] :
            l \in {NilLabels, OwnerLabels("a", "n1")}, d \in {"k1", "k2"} }

\* the values of each type T the function is applied to: nil, or an object
TypedInputs ==
    { {Nil} \cup {Some(o) : o \in {x \in PoolObjects :
                        x.Labels \in {NilLabels, OwnerLabels("a", "n1")}}},
      {Nil} \cup {Some(o) : o \in {x \in AdvObjects :
                        x.Labels \in {NilLabels, OwnerLabels("a", "n1")}}},
      {Nil} \cup {Some(o) : o \in SecretObjects} }

InitNeedsUpdate ==
    /\ \E T \in TypedInputs : \E e \in T, d \in T :
            fnArgs = [fn |-> "ResourceNeedsUpdate", existing |-> e, desired |-> d]
    /\ fnRes = Nil
    /\ bridge = NewBridge("10.0.0.1", TRUE)
    /\ cr = Held(bridge)
    /\ now = 0
    /\ NoUpsertState /\ NoTeardownState /\ NoLog

NeedsUpdateCall ==
    /\ fnArgs.fn = "ResourceNeedsUpdate"
    /\ fnRes = Nil
    /\ fnRes' = Some(ResourceNeedsUpdate(fnArgs.existing, fnArgs.desired))
    /\ UNCHANGED <<fnArgs, bridge, cr, now, inv, prev, run, UpsertVars, TeardownVars>>

NextNeedsUpdate == NeedsUpdateCall

SpecNeedsUpdate == InitNeedsUpdate /\ [][NextNeedsUpdate]_vars

---------------------------------------------------------------------------
(* Properties of the upsert calls, checked under SpecEnsure *)

\* the ownership marker, stated on the labels themselves
CarriesMarker(obj, b) ==
    /\ ~obj.Labels.isNil
    /\ LabelKeys \subseteq DOMAIN obj.Labels.kv
    /\ obj.Labels.kv[LabelDPFHCPBridgeName] = b.Name
    /\ obj.Labels.kv[LabelDPFHCPBridgeNamespace] = b.Namespace

IsWrite(o) == o.op \in {"Create", "Update", "Delete"}
CountOps(ops, what) == Cardinality({k \in 1..Len(ops) : ops[k].op = what})
CountWrites(ops) == Cardinality({k \in 1..Len(ops) : IsWrite(ops[k])})
CountEvents(events, reason) ==
    Cardinality({k \in 1..Len(events) : events[k].reason = reason})

EnsureFns == {"ensureIPAddressPool", "ensureL2Advertisement"}

\* one ensure call that meets a stored resource obj without the parent's
\* marker: obj stays as it is, no write is requested, and the call returns an
\* error, the not-owned error whenever it could read the resource
ForeignLeftAlone(kind, before, after, call) ==
    (~IsNil(before) /\ ~CarriesMarker(Deref(before), bridge)) =>
        /\ after = before
        /\ CountWrites(call.ops) = 0
        /\ call.err # ""
        /\ (call.ops[1].err = "" =>
                call.err = NotOwnedErr(kind, Deref(before), bridge))

\* C1: a resource with the deterministic name whose ownership labels are missing
\* or differ from (parent.name, parent.namespace) is never created over, updated
\* or deleted by ensureIPAddressPool / ensureL2Advertisement; it stays unchanged
\* in the store and the call returns the foreign-ownership error.
C1_OwnershipSacrosanct ==
    [][ /\ (inv'.fn = "ensureIPAddressPool" =>
                ForeignLeftAlone("IPAddressPool", pool, pool', inv'))
        /\ (inv'.fn = "ensureL2Advertisement" =>
                ForeignLeftAlone("L2Advertisement", adv, adv', inv')) ]_vars

C1_Witness ==
    /\ inv.fn = "ensureL2Advertisement"
    /\ ~IsNil(adv) /\ ~CarriesMarker(Deref(adv), bridge)
    /\ inv.err = NotOwnedErr("L2Advertisement", Deref(adv), bridge)
    /\ prev.fn = "ensureIPAddressPool" /\ prev.outcome = "failed"
    /\ ~IsNil(pool) /\ ~CarriesMarker(Deref(pool), bridge)

\* C3: starting with the resource absent, the first of two successive ensure
\* calls of a kind (nothing else touching the store) issues exactly one create
\* and, when that create succeeded, the second issues no create, update or delete.
C3_IdempotentUpsert ==
    /\ (inv.fn \in EnsureFns /\ inv.ops[1].err = ErrNotFound) =>
            /\ Len(inv.ops) = 2
            /\ inv.ops[2].op = "Create"
    /\ (inv.fn \in EnsureFns /\ prev.fn = inv.fn /\ prev.outcome = "created") =>
            CountWrites(inv.ops) = 0

C3_Witness ==
    /\ inv.fn = "ensureIPAddressPool"
    /\ prev.fn = "ensureIPAddressPool" /\ prev.outcome = "created"
    /\ inv.ops = <<Op("Get", "IPAddressPool", "a", "", Nil)>>
    /\ pool = Some(buildIPAddressPool(bridge))

\* one ensure call that meets an owned resource whose spec differs from the
\* desired one: at most one update is requested and, when the call succeeds,
\* exactly one, the stored spec is the desired spec and one event tells it
DriftHealed(before, after, desired, call) ==
    (/\ ~IsNil(before) /\ CarriesMarker(Deref(before), bridge)
     /\ Deref(before).Spec # desired.Spec
     /\ call.ops[1].err = "") =>
        /\ CountOps(call.ops, "Update") <= 1
        /\ CountOps(call.ops, "Create") = 0
        /\ call.err = "" =>
            /\ CountOps(call.ops, "Update") = 1
            /\ ~IsNil(after) /\ Deref(after).Spec = desired.Spec
            /\ CountEvents(call.events, "MetalLBDriftCorrected") = 1
            /\ Len(call.events) = 1
        /\ call.err # "" => call.events = <<>>

\* C4: an owned resource whose spec was changed away from the desired spec is
\* restored by the next ensure call with exactly one update and exactly one
\* MetalLBDriftCorrected event; a further call, nothing having changed, emits none.
C4_DriftSelfHealing ==
    [][ /\ (inv'.fn = "ensureIPAddressPool" =>
                DriftHealed(pool, pool', buildIPAddressPool(bridge), inv'))
        /\ (inv'.fn = "ensureL2Advertisement" =>
                DriftHealed(adv, adv', buildL2Advertisement(bridge), inv'))
        /\ (inv'.fn \in EnsureFns /\ prev'.fn = inv'.fn /\ prev'.outcome = "updated") =>
                /\ inv'.events = <<>>
                /\ CountWrites(inv'.ops) = 0 ]_vars

C4_Witness ==
    /\ inv.fn = "ensureIPAddressPool"
    /\ CountOps(inv.ops, "Update") = 1 /\ inv.err = ""
    /\ CountEvents(inv.events, "MetalLBDriftCorrected") = 1
    /\ Deref(inv.ops[2].obj).Spec = buildIPAddressPool(bridge).Spec
    /\ pool = Some(buildIPAddressPool(bridge))

C4_WitnessFurther ==
    /\ inv.fn = "ensureL2Advertisement"
    /\ prev.fn = "ensureL2Advertisement" /\ prev.outcome = "updated"
    /\ inv.events = <<>>

---------------------------------------------------------------------------
(* Properties of setCondition, checked under SpecCond *)

\* C5: in a run of consecutive setCondition calls with identical (status,
\* reason, message) on the parent object the engine holds, beginning with the
\* call that finds the condition different, exactly one status write is
\* requested and exactly one event emitted, however long the run; no run
\* requests more than one write or emits more than one event.
C5_ConditionDeduplication ==
    run.calls >= 1 =>
        /\ run.writes <= 1
        /\ run.events = run.writes
        /\ run.differed => run.writes = 1

C5_Witness ==
    /\ run.calls = MaxRun
    /\ run.differed
    /\ run.writes = 1 /\ run.events = 1
    /\ inv.fn = "setCondition" /\ inv.ops = <<>> /\ inv.events = <<>>

---------------------------------------------------------------------------
(* Properties of the pure functions *)

\* C9: isOwnedByBridge is true exactly when the resource carries both ownership
\* labels with the values parent.name and parent.namespace; a nil label map, a
\* missing label or a mismatch gives false.
C9_IsOwnedIffMarker ==
    (fnArgs.fn = "isOwnedByBridge" /\ ~IsNil(fnRes)) =>
        /\ Deref(fnRes) = CarriesMarker(fnArgs.obj, fnArgs.bridge)
        /\ fnArgs.obj.Labels.isNil => Deref(fnRes) = FALSE
        /\ (\E k \in LabelKeys : k \notin DOMAIN fnArgs.obj.Labels.kv) =>
                Deref(fnRes) = FALSE

C9_Witness ==
    /\ fnArgs.fn = "isOwnedByBridge"
    /\ fnRes = Some(TRUE)
    /\ fnArgs.bridge.Name = "x" /\ fnArgs.bridge.Namespace = "n1"

\* what differs in the spec portions of two objects of a type
SpecPortionsDiffer(x, y) ==
    /\ "Spec" \in DOMAIN x
    /\ "Spec" \in DOMAIN y
    /\ x.Spec # y.Spec

\* C10: ResourceNeedsUpdate is true exactly when the spec portions of existing
\* and desired are not deeply equal (a nil against a present sub-field included),
\* whatever the other fields hold; true when exactly one input is nil, false
\* when both are.
C10_NeedsUpdateIffSpecDiffers ==
    (fnArgs.fn = "ResourceNeedsUpdate" /\ ~IsNil(fnRes)) =>
        LET e == fnArgs.existing
            d == fnArgs.desired
        IN  Deref(fnRes) =
                IF IsNil(e) /\ IsNil(d) THEN FALSE
                ELSE IF IsNil(e) \/ IsNil(d) THEN TRUE
                ELSE SpecPortionsDiffer(Deref(e), Deref(d))

C10_Witness ==
    /\ fnArgs.fn = "ResourceNeedsUpdate"
    /\ ~IsNil(fnArgs.existing) /\ ~IsNil(fnArgs.desired)
    /\ Deref(fnArgs.existing).Kind = "IPAddressPool"
    /\ Deref(fnArgs.existing).Labels # Deref(fnArgs.desired).Labels
    /\ Deref(fnArgs.existing).Spec.AllocateTo = Nil
    /\ Deref(fnArgs.desired).Spec.AllocateTo # Nil
    /\ Deref(fnArgs.existing).Spec.Addresses = Deref(fnArgs.desired).Spec.Addresses
    /\ fnRes = Some(TRUE)

C10_WitnessNonSpec ==
    /\ fnArgs.fn = "ResourceNeedsUpdate"
    /\ ~IsNil(fnArgs.existing) /\ ~IsNil(fnArgs.desired)
    /\ Deref(fnArgs.existing).Labels # Deref(fnArgs.desired).Labels
    /\ fnRes = Some(FALSE)

---------------------------------------------------------------------------
(* Properties of the teardown, checked under SpecTeardown, SpecTeardownLive *)
(* and SpecSecrets                                                          *)

InvocationOfCleanup == inv.fn = "HandleFinalizerCleanup"

\* C2: in every code path of the engine, upsert and teardown alike, an update
\* or delete request for a dependent resource is issued only for a resource
\* that, as just read, carries the ownership marker of the parent.
C2_MutationOnlyOfOwned ==
    \A k \in 1..Len(inv.ops) :
        (inv.ops[k].op \in {"Update", "Delete"} /\ ~IsNil(inv.ops[k].obj)) =>
            CarriesMarker(Deref(inv.ops[k].obj), bridge)

\* the stored cleanup condition of the parent
StoredCleanup(status, reason) ==
    \E k \in 1..Len(bridge.Conditions) :
        /\ bridge.Conditions[k].Type = HostedClusterCleanup
        /\ bridge.Conditions[k].Status = status
        /\ bridge.Conditions[k].Reason = reason

Elapsed == now - Deref(bridge.DeletionTimestamp)

\* every dependent still stored is within the timeout window of the parent's
\* deletion marker
RemovedWithinWindow ==
    (~IsNil(hc) \/ ~IsNil(np)) => Elapsed <= DeletionTimeout

\* an invocation ran after the window had closed
LateInvocation == InvocationOfCleanup /\ Elapsed > DeletionTimeout

\* an invocation has set the condition to True/CleanupSucceeded and returned
\* no error and no requeue
CleanupSucceeded ==
    /\ InvocationOfCleanup
    /\ StoredCleanup(ConditionTrue, "CleanupSucceeded")
    /\ inv.err = "" /\ inv.requeueAfter = 0

\* the engine is invoked again whenever the scheduler owes an invocation (the
\* deletion event, a requested requeue)
EngineInvokedWhenOwed == []<>(~trigger \/ InvocationOfCleanup)

\* C6 as stated: for a parent with a deletion marker set at time T, if the
\* store removes every dependent within the 30-minute window, store calls do
\* not fail and the engine is re-invoked whenever it asks for a requeue, then an
\* invocation eventually sets True/CleanupSucceeded and returns no error and no
\* requeue.
C6_AsStated ==
    ([]RemovedWithinWindow /\ EngineInvokedWhenOwed) => <>CleanupSucceeded

\* C6: the same, for the behaviours in which no invocation starts later than
\* 30 minutes after T.
C6_TeardownConvergence ==
    ([]RemovedWithinWindow /\ EngineInvokedWhenOwed /\ []~LateInvocation)
        => <>CleanupSucceeded

C6_Witness ==
    /\ CleanupSucceeded
    /\ Elapsed = DeletionTimeout
    /\ \E k \in 1..Len(inv.ops) :
            inv.ops[k].op = "Delete" /\ inv.ops[k].kind = "Secret"
    /\ hc = Nil /\ np = Nil /\ secrets = {}

\* C7: an invocation that finds now - deletionTimestamp beyond 30 minutes while
\* dependents are still present leaves the stored cleanup condition
\* False/CleanupTimeout, returns no error and no requeue, and leaves the
\* finalizer set.  (The invocations meant are those that got as far as the
\* timeout check: their first status write succeeded.)
C7_TeardownTimeout ==
    (/\ InvocationOfCleanup
     /\ ~IsNil(bridge.DeletionTimestamp)
     /\ inv.ops[1].err = ""
     /\ Elapsed > DeletionTimeout
     /\ (~IsNil(hc) \/ ~IsNil(np))) =>
        /\ StoredCleanup(ConditionFalse, "CleanupTimeout")
        /\ inv.err = "" /\ inv.requeueAfter = 0
        /\ bridge.Finalizer

NoCallFailed(ops) == \A k \in 1..Len(ops) : ops[k].err # ErrTransient
DeletedNames(ops) == {ops[k].name : k \in {j \in 1..Len(ops) : ops[j].op = "Delete"}}

\* C8: whichever of the three derived secrets are already absent, deleteSecrets
\* (no store call failing) returns success, requests a delete only for
\* secrets that were present and leaves none stored; called again afterwards it
\* returns success and requests no delete.
C8_SecretCleanupToleratesAbsence ==
    [][ (inv'.fn = "deleteSecrets" /\ NoCallFailed(inv'.ops)) =>
            /\ inv'.err = ""
            /\ DeletedNames(inv'.ops) \subseteq secrets
            /\ secrets' = {}
            /\ (prev'.fn = "deleteSecrets" /\ prev'.outcome # "failed" =>
                    DeletedNames(inv'.ops) = {}) ]_vars

C8_Witness ==
    /\ inv.fn = "deleteSecrets" /\ inv.err = ""
    /\ \E k \in 1..Len(inv.ops) :
            inv.ops[k].op = "Get" /\ IsNotFound(inv.ops[k].err)
    /\ Cardinality(DeletedNames(inv.ops)) = 2

C8_WitnessAgain ==
    /\ inv.fn = "deleteSecrets" /\ inv.err = ""
    /\ prev.fn = "deleteSecrets" /\ prev.outcome # "failed"
    /\ Len(inv.ops) = 3 /\ DeletedNames(inv.ops) = {}

---------------------------------------------------------------------------
(* Properties of ConfigureMetalLB, checked under SpecConfigure *)

InvocationOfConfigure(i) == i.fn = "ConfigureMetalLB"

\* no API call of the invocation failed, a read that found nothing aside
NoStoreFailure(ops) ==
    \A k \in 1..Len(ops) :
        \/ ops[k].err = ""
        \/ ops[k].op = "Get" /\ ops[k].err = ErrNotFound

CreatedObjects(ops) ==
    {Deref(ops[k].obj) : k \in {j \in 1..Len(ops) :
                                    ops[j].op = "Create" /\ ops[j].err = ""}}

PoolAsSpecified(p, b) ==
    /\ p.Name = b.Name
    /\ p.Spec.Addresses = <<b.Spec.VirtualIP \o "/32">>
    /\ p.Spec.AllocateTo = Some([Namespaces |-> <<"clusters-" \o b.Name>>])
    /\ CarriesMarker(p, b)

AdvAsSpecified(a, b) ==
    /\ a.Name = "advertise-" \o b.Name
    /\ a.Spec.IPAddressPools = <<b.Name>>
    /\ CarriesMarker(a, b)

\* C11: for a parent that requests load-balancer exposure, with neither
\* resource stored and no store call failing, ConfigureMetalLB stores a pool
\* named P with the single address <virtualIP>/32, allocated to namespace
\* clusters-P, and an advertisement advertise-P that names exactly pool P, both
\* with the labels (P, N); and isOwnedByBridge holds of every object the
\* engine creates.
C11_CreatedAsSpecified ==
    [][ InvocationOfConfigure(inv') =>
          /\ \A o \in CreatedObjects(inv'.ops) : isOwnedByBridge(o, bridge)
          /\ (/\ ShouldExposeThroughLoadBalancer(bridge)
              /\ pool = Nil /\ adv = Nil
              /\ NoStoreFailure(inv'.ops)) =>
                /\ ~IsNil(pool') /\ PoolAsSpecified(Deref(pool'), bridge)
                /\ ~IsNil(adv') /\ AdvAsSpecified(Deref(adv'), bridge)
                /\ CreatedObjects(inv'.ops) = {Deref(pool'), Deref(adv')} ]_vars

C11_Witness ==
    /\ InvocationOfConfigure(inv) /\ inv.err = ""
    /\ Cardinality(CreatedObjects(inv.ops)) = 2
    /\ ~IsNil(pool) /\ PoolAsSpecified(Deref(pool), bridge)
    /\ ~IsNil(adv) /\ AdvAsSpecified(Deref(adv), bridge)
    /\ bridge.Spec.VirtualIP = "10.0.0.2"

HasCondition(conditions, type, status, reason) ==
    \E k \in 1..Len(conditions) :
        /\ conditions[k].Type = type
        /\ conditions[k].Status = status
        /\ conditions[k].Reason = reason

StatusWriteError == Wrap("updating MetalLBConfigured condition", ErrTransient)

\* both ensure calls of the invocation returned nil: it returned nil itself, or
\* the error of the last status write
EnsuredBoth ==
    /\ InvocationOfConfigure(inv)
    /\ ShouldExposeThroughLoadBalancer(bridge)
    /\ inv.err \in {"", StatusWriteError}

ConfiguredWithReason(reason) ==
    EnsuredBoth =>
        /\ HasCondition(cr.obj.Conditions, MetalLBConfigured, ConditionTrue, reason)
        /\ inv.err = "" =>
                HasCondition(bridge.Conditions, MetalLBConfigured, ConditionTrue, reason)

\* C12 as stated: after the pool and the advertisement have been ensured
\* successfully, the parent's MetalLBConfigured condition is True with reason
\* "Ready".
C12_AsStated == ConfiguredWithReason("Ready")

\* C12: after the pool and the advertisement have been ensured successfully,
\* the parent's MetalLBConfigured condition is True with reason "MetalLBReady":
\* on the object the engine holds, and in the store once the status write
\* succeeded.
C12_ConfiguredWhenEnsured == ConfiguredWithReason("MetalLBReady")

C12_Witness ==
    /\ EnsuredBoth /\ inv.err = ""
    /\ CountOps(inv.ops, "UpdateStatus") = 1
    /\ HasCondition(bridge.Conditions, MetalLBConfigured, ConditionTrue, "MetalLBReady")
    /\ CountOps(inv.ops, "Create") = 2

StoreErrors == {ErrNotFound, ErrAlreadyExists, ErrConflict, ErrTransient}

\* the errors ensureIPAddressPool and ensureL2Advertisement return
PoolErrors ==
    {Wrap(what \o " IPAddressPool", e) :
        what \in {"getting", "creating", "updating"}, e \in StoreErrors}
    \cup {NotOwnedErr("IPAddressPool", o, bridge) : o \in PoolObjects}

AdvErrors ==
    {Wrap(what \o " L2Advertisement", e) :
        what \in {"getting", "creating", "updating"}, e \in StoreErrors}
    \cup {NotOwnedErr("L2Advertisement", o, bridge) : o \in AdvObjects}

OpsOfKind(ops, kind) == {k \in 1..Len(ops) : ops[k].kind = kind}

\* the failure condition of a kind is on the held parent, its message quoting
\* the error returned, and in the store unless the status write failed
FailureConditionSet(reason, prefix) ==
    /\ \E k \in 1..Len(cr.obj.Conditions) :
            /\ cr.obj.Conditions[k].Type = MetalLBConfigured
            /\ cr.obj.Conditions[k].Status = ConditionFalse
            /\ cr.obj.Conditions[k].Reason = reason
            /\ cr.obj.Conditions[k].Message = prefix \o inv.err
    /\ NoStoreFailure(SelectSeq(inv.ops, LAMBDA o : o.op = "UpdateStatus")) =>
            HasCondition(bridge.Conditions, MetalLBConfigured, ConditionFalse, reason)

\* C13: ConfigureMetalLB ensures the pool before the advertisement and halts on
\* the first error: when the pool fails no request for the advertisement is
\* made; on a failure of either kind the failure condition of that kind (False,
\* CreatingIPAddressPool or L2AdvertisementFailed) is set, after the requests of
\* the ensure calls, and the error of the ensure call is what is returned.
C13_HaltsOnFirstError ==
    InvocationOfConfigure(inv) =>
        /\ \A i \in OpsOfKind(inv.ops, "IPAddressPool"),
              j \in OpsOfKind(inv.ops, "L2Advertisement") : i < j
        /\ \A i \in OpsOfKind(inv.ops, "DPFHCPBridge") : i = Len(inv.ops)
        /\ inv.err \in {"", StatusWriteError} \cup PoolErrors \cup AdvErrors
        /\ inv.err \in PoolErrors =>
                /\ OpsOfKind(inv.ops, "L2Advertisement") = {}
                /\ FailureConditionSet("CreatingIPAddressPool",
                                       "Failed to create/update IPAddressPool: ")
        /\ inv.err \in AdvErrors =>
                /\ OpsOfKind(inv.ops, "IPAddressPool") # {}
                /\ FailureConditionSet("L2AdvertisementFailed",
                                       "Failed to create/update L2Advertisement: ")

C13_Witness ==
    /\ InvocationOfConfigure(inv)
    /\ inv.err = Wrap("creating IPAddressPool", ErrAlreadyExists)
    /\ OpsOfKind(inv.ops, "L2Advertisement") = {}
    /\ HasCondition(bridge.Conditions, MetalLBConfigured, ConditionFalse,
                    "CreatingIPAddressPool")
    /\ ~IsNil(adv)

C13_WitnessAdvertisement ==
    /\ InvocationOfConfigure(inv)
    /\ inv.err \in AdvErrors
    /\ CountOps(inv.ops, "UpdateStatus") = 1
    /\ ~NoStoreFailure(inv.ops)
    /\ ~HasCondition(bridge.Conditions, MetalLBConfigured, ConditionFalse,
                     "L2AdvertisementFailed")

\* the reason of the MetalLBConfigured entry, "" when there is none
ReasonOf(conditions) ==
    IF \E k \in 1..Len(conditions) : conditions[k].Type = MetalLBConfigured
    THEN conditions[CHOOSE k \in 1..Len(conditions) :
                        conditions[k].Type = MetalLBConfigured].Reason
    ELSE ""

NotOwnedErrors ==
    {NotOwnedErr("IPAddressPool", o, bridge) : o \in PoolObjects}
    \cup {NotOwnedErr("L2Advertisement", o, bridge) : o \in AdvObjects}

KindOf(err) == IF err \in PoolErrors THEN "IPAddressPool" ELSE "L2Advertisement"

\* the invocations of ConfigureMetalLB in this state that fail on a store
\* error of the given kind
TransientFailures(kind) ==
    {r \in {Configure(io) : io \in ConfigureIO} :
        /\ r.err \in (PoolErrors \cup AdvErrors) \ NotOwnedErrors
        /\ KindOf(r.err) = kind}

\* C14: when ConfigureMetalLB fails because the resource is owned by someone
\* else, the reason of the failure condition differs from the reason a
\* transient failure of the same kind gives.
C14_ForeignOwnershipReason ==
    (InvocationOfConfigure(inv) /\ inv.err \in NotOwnedErrors) =>
        \A r \in TransientFailures(KindOf(inv.err)) :
            ReasonOf(r.cr.Conditions) # ReasonOf(cr.obj.Conditions)

\* what does distinguish the two: the message
C14_ForeignOwnershipMessage ==
    (InvocationOfConfigure(inv) /\ inv.err \in NotOwnedErrors) =>
        /\ TransientFailures(KindOf(inv.err)) # {}
        /\ \A r \in TransientFailures(KindOf(inv.err)) :
              \A k \in 1..Len(r.cr.Conditions) :
                  r.cr.Conditions[k].Message \notin
                      {cr.obj.Conditions[j].Message : j \in 1..Len(cr.obj.Conditions)}

C14_Witness ==
    /\ InvocationOfConfigure(inv)
    /\ inv.err \in NotOwnedErrors
    /\ KindOf(inv.err) = "L2Advertisement"
    /\ ReasonOf(bridge.Conditions) = "L2AdvertisementFailed"

---------------------------------------------------------------------------
(* Failures of the store inside an ensure call, checked under SpecEnsure *)

InvocationOfEnsure == inv.fn \in EnsureFns

Doing(op) == CASE op = "Get" -> "getting"
               [] op = "Create" -> "creating"
               [] op = "Update" -> "updating"
               [] OTHER -> op

\* a request that failed, a Get answered NotFound excepted
Failed(o) == o.err # "" /\ ~(o.op = "Get" /\ o.err = ErrNotFound)

\* C15: in an ensure call a failure of the read, the create or the update,
\* NotFound on the read excepted, is returned as the call's error; no request
\* is made twice in one invocation, and the failed request is the last one, so
\* no write to the store follows it.
C15_StoreFailureReturned ==
    InvocationOfEnsure =>
        /\ \A k \in 1..Len(inv.ops) :
              Failed(inv.ops[k]) =>
                  /\ k = Len(inv.ops)
                  /\ inv.err = Wrap(Doing(inv.ops[k].op) \o " " \o inv.ops[k].kind,
                                    inv.ops[k].err)
        /\ \A op \in {"Get", "Create", "Update"} : CountOps(inv.ops, op) <= 1
        /\ CountWrites(inv.ops) <= 1

C15_Witness ==
    /\ InvocationOfEnsure
    /\ Len(inv.ops) = 2
    /\ inv.ops[2].op = "Update"
    /\ inv.ops[2].err = ErrConflict
    /\ inv.err = Wrap("updating IPAddressPool", ErrConflict)

C15_WitnessRead ==
    /\ InvocationOfEnsure
    /\ inv.ops = <<Op("Get", "L2Advertisement", "advertise-a", ErrTransient, Nil)>>
    /\ inv.err = Wrap("getting L2Advertisement", ErrTransient)

---------------------------------------------------------------------------
(* Notifications and status writes of setCondition *)

InvocationOfSetCondition(i) == i.fn = "setCondition"

\* the MetalLBConfigured entry of a condition list that has one
ConfiguredEntry(conditions) ==
    conditions[CHOOSE k \in 1..Len(conditions) :
                    conditions[k].Type = MetalLBConfigured]

\* what one call of setCondition that changed the held condition does
NotifiesOnce(i, entry) ==
    /\ Len(i.events) = 1
    /\ i.events[1].type = IF entry.Status = ConditionFalse THEN "Warning" ELSE "Normal"
    /\ i.events[1].message = entry.Message
    /\ CountOps(i.ops, "UpdateStatus") = 1

C16_WitnessNormal ==
    /\ InvocationOfSetCondition(inv)
    /\ Len(inv.events) = 1
    /\ inv.events[1].type = "Normal"
    /\ run.differed /\ run.calls = 1 /\ now = 1

C16_WitnessUnchanged ==
    /\ InvocationOfSetCondition(inv)
    /\ inv.events = <<>> /\ inv.ops = <<>>
    /\ run.calls = 2 /\ run.events = 1
    /\ HasCondition(cr.obj.Conditions, MetalLBConfigured, ConditionTrue, "MetalLBReady")

\* C17: over a sequence of invocations, each beginning with the parent as it
\* is stored, no more condition notifications are emitted than the stored
\* condition made transitions, also when a status write failed and the
\* invocation was repeated; judged after an invocation that returned no error.
C17_NotificationPerStoredTransition ==
    (InvocationOfConfigure(inv) /\ inv.err = "") => run.events <= run.transitions

\* with every status write succeeding the two counts agree
C17_WhenWritesSucceed ==
    [][(InvocationOfConfigure(inv') /\ NoStoreFailure(
            SelectSeq(inv'.ops, LAMBDA o : o.op = "UpdateStatus"))) =>
        run'.events - run.events = run'.transitions - run.transitions]_vars

C17_Witness ==
    /\ InvocationOfConfigure(inv) /\ inv.err = ""
    /\ run.calls = 2 /\ run.events = 2 /\ run.transitions = 1

\* C18: when the status write inside setCondition fails, the failure is
\* returned as the call's error and the write is not requested again: a call
\* that changed the condition requests exactly one status write, whether the
\* write succeeds or fails, and a call returns an error only for its write.
C18_StatusWriteFailureReturned ==
    [][InvocationOfSetCondition(inv') =>
          /\ cr'.obj.Conditions # cr.obj.Conditions =>
                /\ Len(inv'.ops) = 1
                /\ inv'.ops[1].op = "UpdateStatus"
          /\ \A k \in 1..Len(inv'.ops) :
                inv'.ops[k].err # "" =>
                    /\ inv'.err = Wrap("updating MetalLBConfigured condition",
                                       inv'.ops[k].err)
                    /\ bridge' = bridge
          /\ inv'.err # "" => ~NoStoreFailure(inv'.ops)]_vars

C18_Witness ==
    /\ InvocationOfSetCondition(inv)
    /\ inv.ops = <<StatusUpdateOp(cr.obj, ErrTransient)>>
    /\ inv.err = StatusWriteError
    /\ bridge.Conditions = <<>>
    /\ Len(cr.obj.Conditions) = 1

C18_WitnessConflict ==
    /\ InvocationOfSetCondition(inv)
    /\ Len(inv.ops) = 1
    /\ inv.err = Wrap("updating MetalLBConfigured condition", ErrConflict)

---------------------------------------------------------------------------
(* The parent's condition list, checked under SpecConditions *)

ConditionTypes == {MetalLBConfigured, HostedClusterCleanup}

EntriesOf(conditions, type) == {k \in 1..Len(conditions) : conditions[k].Type = type}

AtMostOnePerType(conditions) ==
    \A type \in ConditionTypes : Cardinality(EntriesOf(conditions, type)) <= 1

\* the entry of a type moved its lastTransitionTime without moving its status
TransitionTimeMoved(before, after, type) ==
    \E i \in EntriesOf(before, type), j \in EntriesOf(after, type) :
        /\ before[i].LastTransitionTime # after[j].LastTransitionTime
        /\ before[i].Status = after[j].Status

\* the condition lists handed to Status().Update by an invocation, in order
StatusLists(ops) ==
    LET writes == SelectSeq(ops, LAMBDA o : o.op = "UpdateStatus")
    IN  [k \in 1..Len(writes) |-> Deref(writes[k].obj).Conditions]

\* the condition list through a step: as stored before it, as handed to each
\* status write of the invocation, as stored and as held after it
ThroughStep(before, i, after, held) ==
    <<before.Conditions>> \o StatusLists(i.ops) \o <<after.Conditions, held.Conditions>>

\* C19: the condition list of the parent, as stored and as the engine holds
\* it, has at most one entry of each type (MetalLBConfigured,
\* HostedClusterCleanup), and an entry's lastTransitionTime changes only in a
\* step that changes the entry's status, a step being one write of the
\* status (an invocation of HandleFinalizerCleanup makes up to two).
C19_OneEntryPerType ==
    /\ [](AtMostOnePerType(bridge.Conditions) /\ AtMostOnePerType(cr.obj.Conditions))
    /\ [][\A lists \in {ThroughStep(bridge, inv', bridge', cr'.obj)} :
            \A type \in ConditionTypes, k \in 1..(Len(lists) - 1) :
                /\ AtMostOnePerType(lists[k])
                /\ ~TransitionTimeMoved(lists[k], lists[k + 1], type)]_vars

\* both entries stored; the cleanup entry went from CleanupInProgress to
\* CleanupTimeout and kept the time of its last change of status
C19_Witness ==
    /\ InvocationOfCleanup
    /\ Len(bridge.Conditions) = 2
    /\ EntriesOf(bridge.Conditions, MetalLBConfigured) # {}
    /\ \E k \in EntriesOf(bridge.Conditions, HostedClusterCleanup) :
          /\ bridge.Conditions[k].Reason = "CleanupTimeout"
          /\ bridge.Conditions[k].LastTransitionTime < now

\* the MetalLBConfigured entry changed its reason after its status was set
C19_WitnessReason ==
    /\ InvocationOfSetCondition(inv)
    /\ Len(inv.ops) = 1 /\ inv.err = ""
    /\ \E k \in EntriesOf(bridge.Conditions, MetalLBConfigured) :
          /\ bridge.Conditions[k].Reason = "L2AdvertisementFailed"
          /\ bridge.Conditions[k].LastTransitionTime < now
    /\ EntriesOf(bridge.Conditions, HostedClusterCleanup) # {}

\* the entries of a type agree in status, reason and message
SameCondition(before, after, type) ==
    /\ EntriesOf(before, type) # {} <=> EntriesOf(after, type) # {}
    /\ \A i \in EntriesOf(before, type), j \in EntriesOf(after, type) :
          /\ before[i].Status = after[j].Status
          /\ before[i].Reason = after[j].Reason
          /\ before[i].Message = after[j].Message

\* every status write of the invocation i, begun with the parent as stored,
\* hands over a condition that differs from the one stored at that moment
WritesOnlyOnChange(stored, i) ==
    \A lists \in {<<stored.Conditions>> \o StatusLists(i.ops)} :
        \A k \in 1..(Len(lists) - 1) :
            \E type \in ConditionTypes : ~SameCondition(lists[k], lists[k + 1], type)

\* C20: for the upsert's condition and for the teardown's, a status write is
\* requested only when the condition computed differs from the stored one in
\* status, reason or message; an invocation that computes the condition
\* already stored requests no status write.
C20_StatusWriteOnlyOnChange ==
    [][(InvocationOfSetCondition(inv') \/ inv'.fn = "HandleFinalizerCleanup") =>
          WritesOnlyOnChange(bridge, inv')]_vars

\* the upsert's part of it, the parent's generation unchanged
C20_UpsertWritesOnlyOnChange ==
    [][InvocationOfSetCondition(inv') => WritesOnlyOnChange(bridge, inv')]_vars

\* a polling invocation of the teardown: CleanupInProgress stored, computed
\* again, written again
C20_Witness ==
    /\ InvocationOfCleanup
    /\ inv.requeueAfter = DeletionRequeueInterval
    /\ inv.ops[1].op = "UpdateStatus" /\ inv.ops[1].err = ""
    /\ StoredCleanup(ConditionFalse, "CleanupInProgress")
    /\ \E k \in EntriesOf(bridge.Conditions, HostedClusterCleanup) :
          bridge.Conditions[k].LastTransitionTime < now

---------------------------------------------------------------------------
(* The steps of the teardown, checked under SpecTeardown *)

\* the positions of the invocation's requests of an operation on a kind
Requests(op, kind) ==
    {k \in 1..Len(inv.ops) : inv.ops[k].op = op /\ inv.ops[k].kind = kind}

\* the invocation read the dependent and got it
ObservedPresent(kind) == \E k \in Requests("Get", kind) : inv.ops[k].err = ""

\* the position at which the invocation learnt that the dependent is gone: a
\* read answered NotFound or no-match, or a delete answered NotFound; 0 if none
ConfirmedAbsentAt(kind) ==
    LET at == {k \in Requests("Get", kind) : inv.ops[k].err \in {ErrNotFound, ErrNoMatch}}
              \cup {k \in Requests("Delete", kind) : inv.ops[k].err = ErrNotFound}
    IN  IF at = {} THEN 0 ELSE CHOOSE k \in at : \A j \in at : k <= j

ConfirmedAbsent(kind) == ConfirmedAbsentAt(kind) > 0

\* every request about a kind comes after the position given, which is not 0
After(kind, at) == \A k \in OpsOfKind(inv.ops, kind) : at > 0 /\ at < k

\* C21 as stated: no delete request for the NodePool in an invocation that
\* observed the HostedCluster as present, and none for a derived secret in an
\* invocation that observed the HostedCluster or the NodePool as present.
C21_AsStated ==
    InvocationOfCleanup =>
        /\ ObservedPresent("HostedCluster") => Requests("Delete", "NodePool") = {}
        /\ (ObservedPresent("HostedCluster") \/ ObservedPresent("NodePool")) =>
                Requests("Delete", "Secret") = {}

\* C21: the teardown is strictly ordered: an invocation makes a request about
\* the NodePool only after it has confirmed the HostedCluster absent (read
\* answered NotFound or no-match, or delete answered NotFound), and a request
\* about a derived secret only after it has confirmed both absent.
C21_StrictlyOrdered ==
    InvocationOfCleanup =>
        /\ After("NodePool", ConfirmedAbsentAt("HostedCluster"))
        /\ After("Secret", ConfirmedAbsentAt("HostedCluster"))
        /\ After("Secret", ConfirmedAbsentAt("NodePool"))

\* the HostedCluster vanished under its delete request and the NodePool was
\* deleted in the same invocation
C21_Witness ==
    /\ InvocationOfCleanup
    /\ ObservedPresent("HostedCluster")
    /\ \E k \in Requests("Delete", "HostedCluster") : inv.ops[k].err = ErrNotFound
    /\ \E k \in Requests("Delete", "NodePool") : inv.ops[k].err = ""

---------------------------------------------------------------------------
(* Properties of BuildServicePublishingStrategy, checked under SpecPublishing *)

Published(expose) ==
    /\ fnArgs.fn = "BuildServicePublishingStrategy"
    /\ fnArgs.exposeThroughLoadBalancer = expose
    /\ ~IsNil(fnRes)

\* the positions of the mappings for a service
MappingsFor(mappings, service) ==
    {k \in 1..Len(mappings) : mappings[k].Service = service}

\* exactly one mapping for the service, and it has the type
OneOfType(mappings, service, type) ==
    /\ Cardinality(MappingsFor(mappings, service)) = 1
    /\ \A k \in MappingsFor(mappings, service) : mappings[k].Type = type

\* C22: in LoadBalancer mode BuildServicePublishingStrategy returns, whatever
\* the address, exactly four mappings: APIServer of type LoadBalancer;
\* OAuthServer, Konnectivity and Ignition of type Route; none for OIDC.
C22_LoadBalancerMode ==
    Published(TRUE) =>
        /\ Len(Deref(fnRes)) = 4
        /\ OneOfType(Deref(fnRes), APIServer, LoadBalancer)
        /\ \A service \in {OAuthServer, Konnectivity, Ignition} :
              OneOfType(Deref(fnRes), service, Route)
        /\ MappingsFor(Deref(fnRes), OIDC) = {}

C22_Witness ==
    /\ Published(TRUE)
    /\ fnArgs.nodeAddress = "10.0.1.2"
    /\ Deref(fnRes)[1] = Mapping(APIServer, LoadBalancer, Nil)
    /\ Len(Deref(fnRes)) = 4

\* C23: in NodePort mode BuildServicePublishingStrategy returns exactly five
\* mappings, one for each of APIServer, OAuthServer, OIDC, Konnectivity and
\* Ignition, each of type NodePort with a NodePort whose Address is the
\* address given, in strictly ascending order of the service name.
C23_NodePortMode ==
    Published(FALSE) =>
        /\ Len(Deref(fnRes)) = 5
        /\ \A service \in {APIServer, OAuthServer, OIDC, Konnectivity, Ignition} :
              OneOfType(Deref(fnRes), service, NodePort)
        /\ \A k \in 1..Len(Deref(fnRes)) :
              /\ ~IsNil(Deref(fnRes)[k].NodePort)
              /\ Deref(Deref(fnRes)[k].NodePort).Address = fnArgs.nodeAddress
        /\ \A k \in 1..(Len(Deref(fnRes)) - 1) :
              StringLess(Bytes(Deref(fnRes)[k].Service),
                         Bytes(Deref(fnRes)[k + 1].Service))

C23_Witness ==
    /\ Published(FALSE)
    /\ fnArgs.nodeAddress = "192.168.1.100"
    /\ [k \in 1..5 |-> Deref(fnRes)[k].Service]
            = <<APIServer, Ignition, Konnectivity, OAuthServer, OIDC>>

\* the positions of the requests of an operation on a kind in invocation i
RequestsIn(i, op, kind) ==
    {k \in 1..Len(i.ops) : i.ops[k].op = op /\ i.ops[k].kind = kind}

\* the stored dependent of a kind
Dependent(kind, h, n) == IF kind = "HostedCluster" THEN h ELSE n

\* invocation i read the dependent of the kind and got it
ReadIn(i, kind) == \E k \in RequestsIn(i, "Get", kind) : i.ops[k].err = ""

\* invocation i stopped at the kind: it asks to be invoked again after the
\* requeue interval, returns no error, and its last request is about the kind
StoppedAt(i, kind) ==
    /\ i.err = ""
    /\ i.requeueAfter = DeletionRequeueInterval
    /\ i.ops[Len(i.ops)].kind = kind
    /\ OpsOfKind(i.ops, "Secret") = {}
    /\ kind = "HostedCluster" => OpsOfKind(i.ops, "NodePool") = {}
    /\ CountOps(i.ops, "UpdateStatus") = 1

\* C24: when the teardown reads a dependent that carries no deletion marker,
\* it issues exactly one delete request for it; when that request succeeds
\* the dependent counts as still present: the invocation returns no error,
\* requeueAfter = 10 seconds, and makes no request about a later kind or a
\* secret.
C24_DeleteThenRequeue ==
    [][inv'.fn = "HandleFinalizerCleanup" =>
        \A kind \in AllKinds :
            (/\ ReadIn(inv', kind)
             /\ IsNil(Deref(Dependent(kind, hc, np)).DeletionTimestamp)) =>
                /\ Cardinality(RequestsIn(inv', "Delete", kind)) = 1
                /\ \A k \in RequestsIn(inv', "Delete", kind) :
                      inv'.ops[k].err = "" =>
                          /\ StoppedAt(inv', kind)
                          /\ Dependent(kind, hc', np') # Nil
                          /\ DeletionRequeueInterval = 10]_vars

C24_Witness ==
    /\ InvocationOfCleanup
    /\ Requests("Delete", "NodePool") # {}
    /\ inv.ops[Len(inv.ops)].op = "Delete"
    /\ inv.ops[Len(inv.ops)].kind = "NodePool"
    /\ inv.ops[Len(inv.ops)].err = ""
    /\ ConfirmedAbsent("HostedCluster")
    /\ inv.requeueAfter = 10 /\ inv.err = ""
    /\ np # Nil /\ Deref(np).DeletionTimestamp = Marked

\* C25: when the teardown reads a dependent that already carries a deletion
\* marker, the invocation issues no delete request for it, returns no error
\* with requeueAfter = 10 seconds and makes no request about a later kind or a
\* secret; so no invocation ever requests the deletion of a dependent it read
\* as marked.
C25_MarkedIsLeftAlone ==
    [][inv'.fn = "HandleFinalizerCleanup" =>
        \A kind \in AllKinds :
            (/\ ReadIn(inv', kind)
             /\ ~IsNil(Deref(Dependent(kind, hc, np)).DeletionTimestamp)) =>
                /\ RequestsIn(inv', "Delete", kind) = {}
                /\ StoppedAt(inv', kind)
                /\ inv'.requeueAfter = 10
                /\ Dependent(kind, hc', np') = Dependent(kind, hc, np)]_vars

\* a second invocation finds the HostedCluster marked by the first
C25_Witness ==
    /\ InvocationOfCleanup
    /\ Len(inv.ops) = 2
    /\ inv.ops[2].op = "Get" /\ inv.ops[2].kind = "HostedCluster"
    /\ inv.ops[2].err = ""
    /\ inv.requeueAfter = 10 /\ inv.err = ""
    /\ hc # Nil /\ Deref(hc).DeletionTimestamp = Marked
    /\ np # Nil

\* what the teardown turns to after a kind
NextKind(kind) == IF kind = "HostedCluster" THEN "NodePool" ELSE "Secret"

\* the delete requests of the invocation that were answered NotFound
RacedDeletes(kind) == {k \in Requests("Delete", kind) : inv.ops[k].err = ErrNotFound}

\* C26: when a dependent read as present has vanished by the time its delete
\* request is processed (the delete answers NotFound), deleteResource counts
\* it as confirmed absent and returns no error: the same invocation goes on
\* with a read of the next kind, and does not ask for a requeue on account of
\* the vanished dependent.
C26_DeleteRaceIsAbsence ==
    InvocationOfCleanup =>
        \A kind \in AllKinds : \A k \in RacedDeletes(kind) :
            /\ ObservedPresent(kind)
            /\ k < Len(inv.ops)
            /\ inv.ops[k + 1].op = "Get"
            /\ inv.ops[k + 1].kind = NextKind(kind)
            /\ inv.err # Wrap("failed to delete " \o kind, ErrNotFound)
            /\ inv.requeueAfter > 0 => inv.ops[Len(inv.ops)].kind # kind

\* the NodePool vanished under its delete request, and the invocation went on
\* through the secrets to CleanupSucceeded
C26_Witness ==
    /\ InvocationOfCleanup
    /\ RacedDeletes("NodePool") # {}
    /\ Requests("Get", "Secret") # {}
    /\ inv.err = "" /\ inv.requeueAfter = 0
    /\ StoredCleanup(ConditionTrue, "CleanupSucceeded")
    /\ np = Nil

\* the reads of a dependent kind by the invocation, by their answer
ReadsAnswered(kind, errors) == {k \in Requests("Get", kind) : inv.ops[k].err \in errors}

\* C27: when the read of a dependent fails with a no-match error (its kind is
\* not installed), the dependent counts as confirmed absent: no delete is
\* requested for it and the invocation goes on with a read of the next kind,
\* neither failing nor asking for a requeue on its account.  Any other error
\* of the read (NotFound apart) ends the invocation: it is returned, wrapped,
\* with no requeue and no delete request for the dependent.
C27_MissingKindIsAbsence ==
    InvocationOfCleanup =>
        \A kind \in AllKinds :
            /\ \A k \in ReadsAnswered(kind, {ErrNoMatch}) :
                  /\ Requests("Delete", kind) = {}
                  /\ k < Len(inv.ops)
                  /\ inv.ops[k + 1].op = "Get"
                  /\ inv.ops[k + 1].kind = NextKind(kind)
                  /\ inv.err # Wrap("failed to get " \o kind, ErrNoMatch)
            /\ \A k \in ReadsAnswered(kind, StoreErrors \ {ErrNotFound}) :
                  /\ k = Len(inv.ops)
                  /\ inv.err = Wrap("failed to get " \o kind, inv.ops[k].err)
                  /\ inv.requeueAfter = 0
                  /\ Requests("Delete", kind) = {}

\* neither kind is installed: one invocation ends the teardown
C27_Witness ==
    /\ InvocationOfCleanup
    /\ kinds = {}
    /\ ReadsAnswered("HostedCluster", {ErrNoMatch}) # {}
    /\ ReadsAnswered("NodePool", {ErrNoMatch}) # {}
    /\ inv.err = "" /\ inv.requeueAfter = 0
    /\ StoredCleanup(ConditionTrue, "CleanupSucceeded")

\* the read of the NodePool fails for another reason
C27_WitnessOtherError ==
    /\ InvocationOfCleanup
    /\ ReadsAnswered("NodePool", {ErrTransient}) # {}
    /\ inv.err = Wrap("failed to get NodePool", ErrTransient)
    /\ np # Nil

\* the requests about a secret that failed, NotFound apart
FailedSecretRequests ==
    {k \in OpsOfKind(inv.ops, "Secret") : inv.ops[k].err \notin {"", ErrNotFound}}

\* what deleteSecret returns for a failed request
SecretError(o) ==
    Wrap((IF o.op = "Get" THEN "failed to get secret " ELSE "failed to delete secret ")
            \o o.name, o.err)

\* the position of a name in the list of the derived secrets
PositionOf(name) == CHOOSE i \in 1..3 : secretNames(bridge)[i] = name

\* C28: when the read or the delete of a derived secret fails with an error
\* other than NotFound, the invocation stops at that secret: the failed
\* request is its last, no secret later in the list is touched, the error is
\* returned, and the cleanup condition is not set to CleanupSucceeded.
C28_SecretFailureAborts ==
    InvocationOfCleanup =>
        \A k \in FailedSecretRequests :
            /\ k = Len(inv.ops)
            /\ inv.err = SecretError(inv.ops[k])
            /\ inv.requeueAfter = 0
            /\ \A j \in OpsOfKind(inv.ops, "Secret") :
                  PositionOf(inv.ops[j].name) <= PositionOf(inv.ops[k].name)
            /\ CountOps(inv.ops, "UpdateStatus") = 1
            /\ StoredCleanup(ConditionFalse, "CleanupInProgress")
            /\ ~HasCondition(cr.obj.Conditions, HostedClusterCleanup, ConditionTrue,
                             "CleanupSucceeded")

\* the delete of the second secret fails: the first is gone, the third is
\* still stored
C28_Witness ==
    /\ InvocationOfCleanup
    /\ inv.err = Wrap("failed to delete secret a-ssh-key", ErrTransient)
    /\ Requests("Delete", "Secret") # {}
    /\ secrets = {"a-ssh-key", "a-etcd-encryption-key"}
    /\ Cardinality(Requests("Get", "Secret")) = 2

---------------------------------------------------------------------------
(* The terminal condition of the teardown, checked under SpecTeardownOpen *)

Succeeded(conditions) ==
    HasCondition(conditions, HostedClusterCleanup, ConditionTrue, "CleanupSucceeded")

\* the status writes of the invocation that hand over CleanupSucceeded
SucceededWrites ==
    {k \in 1..Len(inv.ops) :
        /\ inv.ops[k].op = "UpdateStatus"
        /\ Succeeded(Deref(inv.ops[k].obj).Conditions)}

\* the invocation saw the secret absent, or deleted it, or saw it vanish
SecretDone(name) ==
    \E k \in Requests("Get", "Secret") :
        /\ inv.ops[k].name = name
        /\ \/ inv.ops[k].err = ErrNotFound
           \/ /\ inv.ops[k].err = ""
              /\ k < Len(inv.ops)
              /\ inv.ops[k + 1].op = "Delete" /\ inv.ops[k + 1].name = name
              /\ inv.ops[k + 1].err \in {"", ErrNotFound}

\* the reads of the invocation that returned a dependent
PresentReads ==
    {k \in 1..Len(inv.ops) :
        inv.ops[k].op = "Get" /\ inv.ops[k].kind \in AllKinds /\ inv.ops[k].err = ""}

\* C29: CleanupSucceeded (True) is written only by an invocation that has
\* confirmed the HostedCluster and the NodePool absent and has dealt with all
\* three derived secrets without error, as its last request; the stored
\* condition becomes True in no other way; and while the stored condition is
\* True no invocation has read a dependent as present after the write that
\* set it.
C29_SucceededOnlyWhenGone ==
    /\ [](InvocationOfCleanup =>
            /\ \A w \in SucceededWrites :
                  /\ w = Len(inv.ops)
                  /\ ConfirmedAbsent("HostedCluster")
                  /\ ConfirmedAbsent("NodePool")
                  /\ \A name \in DerivedSecrets : SecretDone(name)
                  /\ FailedSecretRequests = {}
            /\ Succeeded(bridge.Conditions) =>
                  \A k \in PresentReads :
                      \E w \in SucceededWrites : inv.ops[w].err = "" /\ k < w)
    /\ [][(Succeeded(bridge'.Conditions) /\ ~Succeeded(bridge.Conditions)) =>
            /\ inv'.fn = "HandleFinalizerCleanup"
            /\ inv'.ops[Len(inv'.ops)].op = "UpdateStatus"
            /\ inv'.ops[Len(inv'.ops)].err = ""
            /\ Succeeded(Deref(inv'.ops[Len(inv'.ops)].obj).Conditions)]_vars

\* all three secrets deleted and CleanupSucceeded stored by one invocation
C29_Witness ==
    /\ InvocationOfCleanup
    /\ SucceededWrites # {}
    /\ inv.err = ""
    /\ Cardinality(Requests("Delete", "Secret")) = 3
    /\ Succeeded(bridge.Conditions)
    /\ secrets = {}

\* CleanupSucceeded stored and a HostedCluster created since, which no
\* invocation has read
C29_WitnessCreatedSince ==
    /\ Succeeded(bridge.Conditions)
    /\ hc # Nil
    /\ inv = NoInv

---------------------------------------------------------------------------
(* The first step of the teardown, checked under SpecTeardown *)

\* C30: when the status write of the CleanupInProgress condition fails, the
\* invocation returns that error, asks for no requeue, and makes no request,
\* read or delete, about a dependent or a secret; the store is as it was.
C30_FirstWriteIsFatal ==
    /\ [](InvocationOfCleanup =>
            /\ inv.ops[1].op = "UpdateStatus"
            /\ HasCondition(Deref(inv.ops[1].obj).Conditions, HostedClusterCleanup,
                            ConditionFalse, "CleanupInProgress")
            /\ inv.ops[1].err # "" =>
                  /\ Len(inv.ops) = 1
                  /\ inv.err = inv.ops[1].err
                  /\ inv.requeueAfter = 0)
    /\ [][(inv'.fn = "HandleFinalizerCleanup" /\ inv'.ops[1].err # "") =>
            UNCHANGED <<bridge, hc, np, secrets>>]_vars

\* the first write fails while dependents and secrets are all in place
C30_Witness ==
    /\ InvocationOfCleanup
    /\ inv.ops = <<StatusUpdateOp(cr.obj, ErrTransient)>>
    /\ inv.err = ErrTransient
    /\ ~IsNil(bridge.DeletionTimestamp)
    /\ bridge.Conditions = <<>>
    /\ hc # Nil /\ np # Nil /\ secrets = DerivedSecrets

(* ---- C31: teardown after abandoned invocations ---- *)

IsMarked(cell) == ~IsNil(cell) /\ ~IsNil(Deref(cell).DeletionTimestamp)
IsUnmarked(cell) == ~IsNil(cell) /\ IsNil(Deref(cell).DeletionTimestamp)

\* invocation i, started on the store holding h, n and the secrets given, is
\* at the position the store puts it at: it reads the HostedCluster whatever
\* came before; a marked dependent makes it wait, an unmarked one gets its
\* delete request; the NodePool is looked at when the HostedCluster is not
\* stored, the secrets when neither is
AtStorePosition(i, h, n, present) ==
    /\ i.ops[1].op = "UpdateStatus"
    /\ RequestsIn(i, "Get", "HostedCluster") # {}
    /\ IsMarked(h) =>
            StoppedAt(i, "HostedCluster") /\ RequestsIn(i, "Delete", "HostedCluster") = {}
    /\ IsUnmarked(h) => RequestsIn(i, "Delete", "HostedCluster") # {}
    /\ IsNil(h) =>
            /\ RequestsIn(i, "Delete", "HostedCluster") = {}
            /\ RequestsIn(i, "Get", "NodePool") # {}
            /\ IsMarked(n) =>
                    StoppedAt(i, "NodePool") /\ RequestsIn(i, "Delete", "NodePool") = {}
            /\ IsUnmarked(n) => RequestsIn(i, "Delete", "NodePool") # {}
            /\ IsNil(n) =>
                    /\ RequestsIn(i, "Delete", "NodePool") = {}
                    /\ \A name \in present :
                          \E k \in RequestsIn(i, "Delete", "Secret") : i.ops[k].name = name
                    /\ Succeeded(Deref(i.ops[Len(i.ops)].obj).Conditions)
                    /\ i.err = "" /\ i.requeueAfter = 0

\* an invocation that runs to its end, within the timeout, takes its position
\* from the store as it is when it starts
RederivesPosition ==
    (inv'.fn = "HandleFinalizerCleanup" /\ Elapsed <= DeletionTimeout) =>
        AtStorePosition(inv', hc, np, secrets)

NothingLeft == hc = Nil /\ np = Nil /\ secrets = {}

\* C31: the teardown keeps no step counter.  After invocations abandoned
\* behind any prefix of their store requests, an invocation that runs to its
\* end takes its position from the store as it then is (it reads the
\* HostedCluster again, waits for a marked dependent, asks again for the
\* deletion of an unmarked one, and goes on to the next kind only when the
\* store no longer holds the former); CleanupSucceeded is stored only with
\* every dependent and derived secret gone; and when the dependents are
\* removed and the engine invoked within the timeout, an invocation reaches
\* CleanupSucceeded.
C31_CrashSafeRederivation ==
    /\ [][RederivesPosition]_vars
    /\ [](CleanupSucceeded => NothingLeft)
    /\ ([]RemovedWithinWindow /\ EngineInvokedWhenOwed /\ []~LateInvocation)
            => <>CleanupSucceeded

\* CleanupSucceeded after an invocation was abandoned right behind its delete
\* request for the HostedCluster
C31_Witness ==
    /\ CleanupSucceeded
    /\ run.abandoned > 0
    /\ run.cut = [op |-> "Delete", kind |-> "HostedCluster"]
    /\ Requests("Get", "HostedCluster") # {}
    /\ NothingLeft

(* ---- C32: the update of drift correction ---- *)

StoredOf(fn, p, a) == IF fn = "ensureIPAddressPool" THEN p ELSE a
DesiredOf(fn, b) ==
    IF fn = "ensureIPAddressPool" THEN buildIPAddressPool(b) ELSE buildL2Advertisement(b)
KindOfFn(fn) == IF fn = "ensureIPAddressPool" THEN "IPAddressPool" ELSE "L2Advertisement"
RacesOf(fn) == IF fn = "ensureIPAddressPool" THEN PoolRaces ELSE AdvRaces

DriftCorrectedEvents(i) ==
    {k \in 1..Len(i.events) : i.events[k].reason = "MetalLBDriftCorrected"}

\* the update request at position k of invocation i, which found `before`
\* stored and left `after` stored
UpdateOfDrift(i, k, b, before, after) ==
    LET sent == Deref(i.ops[k].obj)
    IN  /\ ~IsNil(before)
        /\ sent = [Decoded(Cell(before)) EXCEPT !.Spec = DesiredOf(i.fn, b).Spec]
        /\ k = Len(i.ops) /\ CountOps(i.ops, "Update") = 1
        /\ i.ops[k].err = "" =>
                /\ after = Some(Encoded(sent))
                /\ i.err = "" /\ DriftCorrectedEvents(i) # {}
        /\ i.ops[k].err # "" =>
                /\ i.err = Wrap("updating " \o KindOfFn(i.fn), i.ops[k].err)
                /\ i.events = <<>>
        /\ i.ops[k].err = ErrConflict =>
                \E race \in RacesOf(i.fn) \ {Nil, Some(Nil)} : after = Deref(race)
        /\ i.ops[k].err = ErrNotFound => after = Nil
        /\ i.ops[k].err = ErrTransient =>
                after \in {before} \cup {Deref(race) : race \in RacesOf(i.fn) \ {Nil}}

\* C32: the update an ensure call issues carries the resource as read
\* (identity, labels, version token) with only the spec replaced by the
\* desired spec, and it is the call's only and last request after the read.
\* When the version token is stale (another actor wrote the resource between
\* the read and the update) the update fails with a conflict: the error is
\* returned, what the other actor wrote stays stored, and no drift-corrected
\* event is emitted.
C32_DriftUpdateKeepsIdentity ==
    [][\A k \in 1..Len(inv'.ops) :
            (inv'.fn \in EnsureFns /\ inv'.ops[k].op = "Update") =>
                UpdateOfDrift(inv', k, bridge, StoredOf(inv'.fn, pool, adv),
                              StoredOf(inv'.fn, pool', adv'))]_vars

\* an update of the pool that met a stale token: what the other actor wrote,
\* without the parent's marker and with another spec, is still stored
C32_Witness ==
    /\ inv.fn = "ensureIPAddressPool"
    /\ Len(inv.ops) = 2
    /\ inv.ops[2].op = "Update" /\ inv.ops[2].err = ErrConflict
    /\ Deref(inv.ops[2].obj).ResourceVersion = 1
    /\ Deref(inv.ops[2].obj).Labels = OwnerLabels("a", "n1")
    /\ inv.err = Wrap("updating IPAddressPool", ErrConflict)
    /\ inv.events = <<>>
    /\ ~IsNil(pool)
    /\ Deref(pool).Labels = NilLabels
    /\ Deref(pool).Spec # Deref(inv.ops[2].obj).Spec

(* ---- C33: what the teardown touches ---- *)

\* the requests the teardown may make: reads, status writes of the parent,
\* and deletes of the HostedCluster and the NodePool of the parent's name and
\* of the three secrets named after the parent
TeardownRequest(o, b) ==
    \/ o.op = "Get" /\ o.kind \in AllKinds \cup {"Secret"}
    \/ /\ o.op = "UpdateStatus" /\ o.kind = "DPFHCPBridge" /\ o.name = b.Name
       /\ Deref(o.obj).Finalizer = b.Finalizer
    \/ /\ o.op = "Delete" /\ o.kind \in AllKinds /\ o.name = b.Name
       /\ ~IsNil(o.obj) => /\ Deref(o.obj).Name = b.Name
                           /\ Deref(o.obj).Namespace = b.Namespace
    \/ /\ o.op = "Delete" /\ o.kind = "Secret"
       /\ o.name \in {b.Name \o "-pull-secret", b.Name \o "-ssh-key",
                      b.Name \o "-etcd-encryption-key"}

\* C33: HandleFinalizerCleanup leaves the parent's finalizer as it is; the
\* only deletions it requests are of the HostedCluster and the NodePool named
\* parent.name and of the secrets <name>-pull-secret, <name>-ssh-key and
\* <name>-etcd-encryption-key; it makes no request about the IPAddressPool or
\* the L2Advertisement of the parent, which stay stored as they were.
C33_TeardownFrame ==
    /\ [](InvocationOfCleanup =>
            \A k \in 1..Len(inv.ops) : TeardownRequest(inv.ops[k], bridge))
    /\ [][inv'.fn = "HandleFinalizerCleanup" =>
            /\ bridge'.Finalizer = bridge.Finalizer
            /\ cr'.obj.Finalizer = bridge.Finalizer
            /\ pool' = pool /\ adv' = adv]_vars
    /\ [](bridge.Finalizer /\ ~IsNil(pool) /\ ~IsNil(adv))

\* an invocation that went through all its steps: the dependents and the
\* secrets are gone, CleanupSucceeded is stored, the finalizer, the pool and
\* the advertisement are still there
C33_Witness ==
    /\ CleanupSucceeded
    /\ CountOps(inv.ops, "Delete") = 3
    /\ NothingLeft
    /\ bridge.Finalizer
    /\ pool = Some(buildIPAddressPool(bridge))
    /\ adv = Some(buildL2Advertisement(bridge))

(* ---- C34: the timeout comes first ---- *)

\* the requests of the invocation about dependents and secrets
DependentRequests ==
    {k \in 1..Len(inv.ops) : inv.ops[k].kind \in AllKinds \cup {"Secret"}}

\* C34: the timeout test comes before any dependent is read and is strict.
\* An invocation that starts with more than 30 minutes elapsed since the
\* deletion marker makes no request about a dependent or a secret (no read,
\* no delete) and does not write CleanupSucceeded, whatever is still stored;
\* one that starts with exactly 30 minutes elapsed, or less, goes on to read
\* the HostedCluster once its first status write is through.
C34_TimeoutFirst ==
    (InvocationOfCleanup /\ ~IsNil(bridge.DeletionTimestamp)) =>
        /\ Elapsed > DeletionTimeout =>
                /\ DependentRequests = {}
                /\ SucceededWrites = {}
                /\ Len(inv.ops) <= 2
                /\ inv.requeueAfter = 0
        /\ (Elapsed <= DeletionTimeout /\ inv.ops[1].err = "") =>
                /\ Len(inv.ops) >= 2
                /\ inv.ops[2].op = "Get" /\ inv.ops[2].kind = "HostedCluster"

\* an invocation later than the timeout with nothing left to delete: it
\* records CleanupTimeout and asks for nothing more
C34_Witness ==
    /\ InvocationOfCleanup
    /\ ~IsNil(bridge.DeletionTimestamp)
    /\ Elapsed > DeletionTimeout
    /\ NothingLeft
    /\ Len(inv.ops) = 2 /\ inv.ops[2].op = "UpdateStatus" /\ inv.ops[2].err = ""
    /\ StoredCleanup(ConditionFalse, "CleanupTimeout")
    /\ inv.err = "" /\ inv.requeueAfter = 0

(* ---- C35: when True is written ---- *)

Configured(conditions) ==
    \E k \in 1..Len(conditions) :
        conditions[k].Type = MetalLBConfigured /\ conditions[k].Status = ConditionTrue

\* the status writes of invocation i that carry MetalLBConfigured = True
TrueWrites(i) ==
    {k \in 1..Len(i.ops) :
        i.ops[k].op = "UpdateStatus" /\ Configured(Deref(i.ops[k].obj).Conditions)}

\* C35: ConfigureMetalLB writes MetalLBConfigured = True only as its last
\* request, after requests about the pool and about the advertisement none of
\* which failed, in an invocation that returns nil or the error of that very
\* write; an invocation in which ensureIPAddressPool or ensureL2Advertisement
\* returned an error writes no True; and the stored condition turns True only
\* through an invocation that returned nil.
C35_TrueOnlyAfterBothEnsured ==
    /\ [](InvocationOfConfigure(inv) =>
            /\ \A k \in TrueWrites(inv) :
                  /\ k = Len(inv.ops)
                  /\ inv.err \in {"", StatusWriteError}
                  /\ OpsOfKind(inv.ops, "IPAddressPool") # {}
                  /\ OpsOfKind(inv.ops, "L2Advertisement") # {}
                  /\ NoStoreFailure(SubSeq(inv.ops, 1, k - 1))
            /\ inv.err \in PoolErrors \cup AdvErrors => TrueWrites(inv) = {})
    /\ [][(Configured(bridge'.Conditions) /\ ~Configured(bridge.Conditions)) =>
            /\ InvocationOfConfigure(inv') /\ inv'.err = ""
            /\ TrueWrites(inv') = {Len(inv'.ops)}]_vars

\* the advertisement failed in an invocation that found True stored: False is
\* written, True is not
C35_Witness ==
    /\ InvocationOfConfigure(inv)
    /\ inv.err \in AdvErrors
    /\ TrueWrites(inv) = {}
    /\ CountOps(inv.ops, "UpdateStatus") = 1
    /\ inv.ops[Len(inv.ops)].err = ""
    /\ HasCondition(bridge.Conditions, MetalLBConfigured, ConditionFalse,
                    "L2AdvertisementFailed")
    /\ ~IsNil(pool)

\* both ensured, True written last
C35_WitnessTrue ==
    /\ InvocationOfConfigure(inv) /\ inv.err = ""
    /\ TrueWrites(inv) = {Len(inv.ops)}
    /\ Configured(bridge.Conditions)

(* ---- C36: the create race ---- *)

\* the create request at position k of invocation i lost against another
\* actor: `before` was stored when the call started, `after` when it ended
CreateLost(i, k, b, before, after) ==
    /\ IsNil(before)
    /\ k = 2 /\ Len(i.ops) = 2
    /\ i.ops[1].op = "Get" /\ i.ops[1].err = ErrNotFound
    /\ Deref(i.ops[k].obj) = DesiredOf(i.fn, b)
    /\ i.err = Wrap("creating " \o KindOfFn(i.fn), ErrAlreadyExists)
    /\ i.events = <<>>
    /\ \E race \in RacesOf(i.fn) \ {Nil, Some(Nil)} : after = Deref(race)

\* C36: when another actor creates the resource of the deterministic name
\* between the read (NotFound) and the create of an ensure call, the create
\* answers AlreadyExists; the call returns that error, wrapped, makes no
\* further request (no update, no second create) and emits no event, and what
\* the other actor stored stays stored.
C36_CreateRace ==
    [][\A k \in 1..Len(inv'.ops) :
            (/\ inv'.fn \in EnsureFns
             /\ inv'.ops[k].op = "Create" /\ inv'.ops[k].err = ErrAlreadyExists) =>
                CreateLost(inv', k, bridge, StoredOf(inv'.fn, pool, adv),
                           StoredOf(inv'.fn, pool', adv'))]_vars

\* a lost create of the pool: the other actor's pool, without the parent's
\* marker and with another address, is what is stored
C36_Witness ==
    /\ inv.fn = "ensureIPAddressPool"
    /\ Len(inv.ops) = 2
    /\ inv.ops[2].op = "Create" /\ inv.ops[2].err = ErrAlreadyExists
    /\ inv.err = Wrap("creating IPAddressPool", ErrAlreadyExists)
    /\ ~IsNil(pool)
    /\ Deref(pool).Labels = NilLabels
    /\ Deref(pool).Spec.Addresses # Deref(inv.ops[2].obj).Spec.Addresses

(* ---- C37: two parents of one name ---- *)

ManagedKinds == {"IPAddressPool", "L2Advertisement"}

\* at most one parent has created or updated the resource of each kind
OneWriter == \A kind \in ManagedKinds : Cardinality(run[kind]) <= 1

\* the last call was an ensure call of the parent that is not the one that
\* has written the resource
CallOfTheOther ==
    /\ inv.fn \in EnsureFns
    /\ run[KindOfFn(inv.fn)] = {OtherParent(fnArgs.namespace)}

\* the call of the other parent wrote nothing, and the resource stored bears
\* the marker of the parent that wrote it
LeftToItsOwner ==
    /\ ~Wrote(inv.ops)
    /\ ~IsNil(StoredOf(inv.fn, pool, adv))
    /\ CarriesMarker(Deref(StoredOf(inv.fn, pool, adv)),
                     ParentIn(OtherParent(fnArgs.namespace)))
    /\ ~CarriesMarker(Deref(StoredOf(inv.fn, pool, adv)), ParentIn(fnArgs.namespace))

ForeignOwnership ==
    NotOwnedErr(KindOfFn(inv.fn), Deref(StoredOf(inv.fn, pool, adv)),
                ParentIn(fnArgs.namespace))

\* a call that does not overlap the writer's leaves the store as it found it
OtherChangesNothing ==
    (CallOfTheOther' /\ ~fnArgs'.overlap) => (pool' = pool /\ adv' = adv)

\* C37 as stated: of two parents of one name in different namespaces at most
\* one ever creates or updates the pool (and the advertisement); every ensure
\* call of the other returns the foreign-ownership error and changes nothing.
C37_AsStated ==
    /\ [](OneWriter /\ (CallOfTheOther => LeftToItsOwner /\ inv.err = ForeignOwnership))
    /\ [][OtherChangesNothing]_vars

\* C37: of two parents of one name in different namespaces at most one ever
\* creates or updates the pool (and the advertisement); every ensure call of
\* the other returns an error and changes nothing: the foreign-ownership
\* error when it reads the resource, and the wrapped AlreadyExists of its
\* create when the writer's create came between its read and its create.
C37_NameCollision ==
    /\ [](OneWriter /\ (CallOfTheOther =>
            /\ LeftToItsOwner
            /\ ~fnArgs.overlap => inv.err = ForeignOwnership
            /\ fnArgs.overlap =>
                    inv.err = Wrap("creating " \o KindOfFn(inv.fn), ErrAlreadyExists)))
    /\ [][OtherChangesNothing]_vars

\* the parent in n2 lost the create of the pool against the parent in n1
C37_Witness ==
    /\ CallOfTheOther
    /\ fnArgs.namespace = "n2" /\ fnArgs.overlap
    /\ inv.fn = "ensureIPAddressPool"
    /\ inv.err = Wrap("creating IPAddressPool", ErrAlreadyExists)
    /\ pool = Some(buildIPAddressPool(bridge))
    /\ run.IPAddressPool = {"n1"}

\* the parent in n2 read the pool of the parent in n1, which had been updated
\* after an edit, and was refused
C37_WitnessRefused ==
    /\ CallOfTheOther
    /\ fnArgs.namespace = "n2" /\ ~fnArgs.overlap
    /\ inv.err = ForeignOwnership
    /\ bridge.Generation > 1
    /\ pool = Some(buildIPAddressPool(bridge))

(* ---- C38: no exposure asked for ---- *)

\* C38: when the parent does not ask for exposure through a load balancer,
\* ConfigureMetalLB returns nil and no requeue, makes no request to the store
\* (no read, create, update, delete or status write) and emits no event; the
\* pool, the advertisement and the parent with its conditions stay stored as
\* they were.
C38_NoExposureNoEffect ==
    [][(inv'.fn = "ConfigureMetalLB" /\ ~bridge.Spec.ExposeThroughLoadBalancer) =>
            /\ inv'.ops = <<>> /\ inv'.events = <<>>
            /\ inv'.err = "" /\ inv'.requeueAfter = 0
            /\ pool' = pool /\ adv' = adv /\ bridge' = bridge
            /\ cr'.obj = bridge]_vars

\* an invocation for a parent whose exposure was switched off after MetalLB
\* had been configured for it: pool, advertisement and the True condition
\* are still there
C38_Witness ==
    /\ inv.fn = "ConfigureMetalLB"
    /\ ~bridge.Spec.ExposeThroughLoadBalancer
    /\ inv.ops = <<>> /\ inv.err = ""
    /\ pool = Some(buildIPAddressPool(bridge))
    /\ adv = Some(buildL2Advertisement(bridge))
    /\ Configured(bridge.Conditions)

(* ---- C39: no deletion marker ---- *)

\* C39: HandleFinalizerCleanup called for a parent without deletion marker
\* returns an error (that of its first status write if that failed,
\* "deletionTimestamp is nil" otherwise) and no requeue, and makes no request
\* about a dependent or a secret: its only request is the status write that
\* records CleanupInProgress.
C39_NoMarkerIsAnError ==
    (InvocationOfCleanup /\ IsNil(bridge.DeletionTimestamp)) =>
        /\ inv.err # "" /\ inv.requeueAfter = 0
        /\ Len(inv.ops) = 1 /\ inv.ops[1].op = "UpdateStatus"
        /\ inv.ops[1].err = "" => inv.err = "deletionTimestamp is nil"
        /\ DependentRequests = {}
        /\ Requests("Delete", "HostedCluster") = {} /\ Requests("Delete", "NodePool") = {}
        /\ Requests("Delete", "Secret") = {}
        /\ ~IsNil(hc) /\ ~IsNil(np) /\ secrets = DerivedSecrets

\* the error is returned with every dependent and secret still stored, and
\* CleanupInProgress recorded on the parent nobody asked to delete
C39_Witness ==
    /\ InvocationOfCleanup /\ IsNil(bridge.DeletionTimestamp)
    /\ inv.err = "deletionTimestamp is nil"
    /\ inv.requeueAfter = 0
    /\ ~IsNil(hc) /\ ~IsNil(np) /\ secrets = DerivedSecrets
    /\ StoredCleanup(ConditionFalse, "CleanupInProgress")

(* ---- C40: when the teardown asks for a requeue ---- *)

TimedOut == ~IsNil(bridge.DeletionTimestamp) /\ Elapsed > DeletionTimeout

\* the invocation read a dependent and got it
ReadPresent == \E kind \in AllKinds : ObservedPresent(kind)

\* the invocation read a dependent, got it, and did not learn from its delete
\* request that it had vanished
StillPresent == \E kind \in AllKinds : ObservedPresent(kind) /\ ~ConfirmedAbsent(kind)

RequeueDiscipline(waiting) ==
    InvocationOfCleanup =>
        /\ inv.requeueAfter \in {0, DeletionRequeueInterval}
        /\ DeletionRequeueInterval = 10
        /\ ~(inv.err # "" /\ inv.requeueAfter # 0)
        /\ inv.requeueAfter # 0 <=> (inv.err = "" /\ ~TimedOut /\ waiting)

\* C40 as stated: HandleFinalizerCleanup returns a requeue, always of 10
\* seconds, if and only if it returns no error, the timeout was not exceeded
\* and a dependent was read as present in the invocation; never an error and
\* a requeue together.
C40_AsStated == RequeueDiscipline(ReadPresent)

\* C40: HandleFinalizerCleanup returns a requeue, always of 10 seconds, if
\* and only if it returns no error, the timeout was not exceeded and a
\* dependent was read as present and not found to have vanished when its
\* deletion was requested; never an error and a requeue together.
C40_RequeueDiscipline == RequeueDiscipline(StillPresent)

\* the HostedCluster was read as present and vanished under the delete
\* request: the invocation went on, finished the teardown and asks for no
\* requeue
C40_Witness ==
    /\ CleanupSucceeded
    /\ ObservedPresent("HostedCluster")
    /\ RacedDeletes("HostedCluster") # {}
    /\ ~TimedOut
    /\ inv.requeueAfter = 0

\* a requeue: the NodePool was read as present after the HostedCluster had
\* been confirmed absent
C40_WitnessRequeue ==
    /\ InvocationOfCleanup
    /\ inv.requeueAfter = 10 /\ inv.err = ""
    /\ ConfirmedAbsent("HostedCluster")
    /\ ObservedPresent("NodePool")

=============================================================================
